---- MODULE Spec2Model ----
(***************************************************************************)
(* A model of the enclave sandbox: the session engine of                   *)
(* ext/enclave/sandbox_core.c (memory tracker, deadline hook, eval, reset, *)
(* define_function, free) and the Ruby facade of ext/enclave/enclave.c.    *)
(*                                                                         *)
(* The guest VM (mruby) is an external library.  It is modelled as the     *)
(* environment that drives the callbacks the code installs in it: the      *)
(* allocator, the code-fetch hook, the output overrides and the tool       *)
(* trampoline.  A blocking sandbox_state_eval is therefore split into its  *)
(* prologue (up to mrb_vm_run), the VM's steps, and its epilogue.          *)
(*                                                                         *)
(* Environment assumptions: the host's malloc never fails; one thread and  *)
(* one session; facade calls are not re-entered from a tool callback.      *)
(***************************************************************************)
EXTENDS Integers, Sequences, FiniteSets, Bags, TLC

(* ----------------------------------------------------------------------- *)
(* Bounds of the model                                                      *)
(* ----------------------------------------------------------------------- *)
\* evals per VM that reach mrb_vm_run (bounds cxt->lineno)
MaxEvals == 2
\* VM steps in one run of a finite guest program
MaxSteps == 2
\* names handed to define_function
MaxNames == 1
\* the last reading of the monotonic clock a run may see (the first is 1)
MaxClock == 3
\* the non-zero timeout a session can be opened with, in clock ticks
TimeoutTicks == 1
\* the non-zero memory limit a session can be opened with, in bytes
MemLimit == 6
\* width of size_t in the model, in bits
SizeBits == 8
\* bytes mrb_open and the sandbox setup allocate for a VM
VmBaseSize == 3
\* bytes mrb_define_method allocates for one tool name
FuncSize == 1
\* bytes of the parser's memory pool
ParserSize == 1
\* bytes of the string an inspect call allocates
InspectSize == 1
\* bytes of one guest object
ObjSize == 2
\* bytes the VM of a session without a memory limit may hold
MaxHeap == 8
\* bytes the guest can print in one eval
MaxOut == 1
MaxWrite == 12
\* calls of sandbox_value_free on one value
MaxFrees == 3
\* largest size asked of the allocator on its own
MaxAlloc == 4
\* evals of one session in progress at a time
MaxDepth == 2
\* bytes of the long string appended to the output buffer on its own
LongWrite == 300
\* bytes of short strings appended before and after each long one
MaxTail == 2
\* states a handle has freed when _init is called on it once more
MaxInits == 2
\* blocks the VM holds when it asks the allocator for sizes of any width
MaxBlocks == 3
\* instruction fetches of one eval followed one by one (two sampling windows
\* and two fetches more)
MaxFetches == 2050

(* ----------------------------------------------------------------------- *)
(* Program constants                                                        *)
(* ----------------------------------------------------------------------- *)
TIMEOUT_CHECK_INTERVAL == 1024
SANDBOX_MAX_FUNCTIONS == 64
\* the bytes of the size header before every block (64-bit build)
MEM_HEADER_SIZE == 16

SIZE_MOD == 2 ^ SizeBits

NULL == "NULL"

SANDBOX_ERROR_NONE         == "None"
SANDBOX_ERROR_RUNTIME      == "Runtime"
SANDBOX_ERROR_TIMEOUT      == "Timeout"
SANDBOX_ERROR_MEMORY_LIMIT == "MemoryLimit"

\* names a host may register, user variables of guest programs, output bytes
ToolNames == {"foo"}
Vars      == {"x"}
OutBytes  == {"a"}

\* guest values: nil and small integers
NilV      == [t |-> "nil", i |-> 0]
IntV(i)   == [t |-> "int", i |-> i]
Val       == {NilV, IntV(1)}

\* Object#inspect of a guest value, as the VM computes it
Inspect(v) == IF v.t = "nil" THEN "nil" ELSE ToString(v.i)

\* exceptions of the guest VM
NoExc          == [cls |-> "", msg |-> ""]
TimeoutExc     == [cls |-> "RuntimeError", msg |-> "execution timeout exceeded"]
NoMemoryExc    == [cls |-> "NoMemoryError", msg |-> "Out of memory"]
NoCallbackExc  == [cls |-> "RuntimeError", msg |-> "no tool callback registered"]
NoMethodExc    == [cls |-> "NoMethodError", msg |-> "undefined method"]
\* what guest code can raise by itself; it may forge the text of a limit error
GuestExcs      == {[cls |-> "RuntimeError", msg |-> "execution timeout exceeded"]}
\* Exception#inspect, as the VM computes it
ExcInspect(e)  == e.msg \o " (" \o e.cls \o ")"

VARIABLES
    sb,              \* rb_enclave_t, the facade's handle: [state, closed], with
                     \* frees (the calls of sandbox_state_free made for it so
                     \* far) and released (rb_enclave_free has run)
    state,           \* the sandbox_state_t the handle points to
    tl_mem_tracker,  \* the thread-local active-tracker slot: NULL or "S"
    now,             \* CLOCK_MONOTONIC, in ticks
    pc,              \* where the session's thread is: "idle", "running" (in
                     \* mrb_vm_run), "unwound" (a host exception jumped out of
                     \* mrb_vm_run) or "crashed" (an invalid read killed it)
    run,             \* the frame of the eval in progress: [prog, prev, steps, nlocals]
    result,          \* the sandbox_result_t of the last sandbox_state_eval
    ret,             \* what the last facade call did: [op, raised, triple]
    hist             \* history of the session, kept for the properties only

vars == <<sb, state, tl_mem_tracker, now, pc, run, result, ret, hist>>

(* ----------------------------------------------------------------------- *)
(* Memory tracking allocator                                                *)
(* ----------------------------------------------------------------------- *)
\* a pointer handed to the allocator: NULL, or a block whose header holds hdr
NullPtr   == [null |-> TRUE,  hdr |-> 0]
Block(sz) == [null |-> FALSE, hdr |-> sz]

mem_tracker_activate(tl, tracker) == [prev |-> tl, tl |-> tracker]

mem_tracker_restore(prev) == prev

\* the allocator refusing a request without the assignment to exceeded
alloc_without_flag(tl, mt, ptr, size) ==
    IF size = 0
    THEN [ret |-> NullPtr,
          mt  |-> IF ~ptr.null /\ tl # NULL
                  THEN [mt EXCEPT !.current = (mt.current - ptr.hdr) % SIZE_MOD]
                  ELSE mt]
    ELSE LET old == IF ptr.null THEN 0 ELSE ptr.hdr
             new == (mt.current - old + size) % SIZE_MOD
         IN  IF tl # NULL /\ mt.limit > 0 /\ new > mt.limit
             THEN [ret |-> NullPtr, mt |-> mt]
             ELSE [ret |-> Block(size),
                   mt  |-> IF tl # NULL THEN [mt EXCEPT !.current = new] ELSE mt]

\* the allocator with a realloc that forgets the size of the block it replaces
alloc_realloc_adds(tl, mt, ptr, size) ==
    IF size = 0
    THEN [ret |-> NullPtr,
          mt  |-> IF ~ptr.null /\ tl # NULL
                  THEN [mt EXCEPT !.current = (mt.current - ptr.hdr) % SIZE_MOD]
                  ELSE mt]
    ELSE IF tl # NULL /\ mt.limit > 0 /\ (mt.current + size) % SIZE_MOD > mt.limit
    THEN [ret |-> NullPtr, mt |-> [mt EXCEPT !.exceeded = TRUE]]
    ELSE [ret |-> Block(size),
          mt  |-> IF tl # NULL
                  THEN [mt EXCEPT !.current = (mt.current + size) % SIZE_MOD]
                  ELSE mt]

\* mrb_basic_alloc_func(ptr, size) with tl_mem_tracker = tl and, when tl is not
\* NULL, *tl = mt.  Gives the returned pointer and the tracker afterwards.
mrb_basic_alloc_func(tl, mt, ptr, size) ==
    IF size = 0
    THEN \* free
         [ret |-> NullPtr,
          mt  |-> IF ~ptr.null /\ tl # NULL
                  THEN [mt EXCEPT !.current = (mt.current - ptr.hdr) % SIZE_MOD]
                  ELSE mt]
    ELSE IF ptr.null
    THEN \* malloc
         IF tl # NULL /\ mt.limit > 0 /\ (mt.current + size) % SIZE_MOD > mt.limit
         THEN [ret |-> NullPtr, mt |-> [mt EXCEPT !.exceeded = TRUE]]
         ELSE [ret |-> Block(size),
               mt  |-> IF tl # NULL
                       THEN [mt EXCEPT !.current = (mt.current + size) % SIZE_MOD]
                       ELSE mt]
    ELSE \* realloc
         IF tl # NULL /\ mt.limit > 0
            /\ (mt.current - ptr.hdr + size) % SIZE_MOD > mt.limit
         THEN [ret |-> NullPtr, mt |-> [mt EXCEPT !.exceeded = TRUE]]
         ELSE [ret |-> Block(size),
               mt  |-> IF tl # NULL
                       THEN [mt EXCEPT !.current = (mt.current - ptr.hdr + size) % SIZE_MOD]
                       ELSE mt]

(* ----------------------------------------------------------------------- *)
(* The VM's heap: the blocks it holds, by the size in each block's header   *)
(* ----------------------------------------------------------------------- *)
OneBlock(sz) == SetToBag({sz})

\* the bytes of the blocks of bag, size by size
RECURSIVE HeapBytes(_)
HeapBytes(bag) ==
    IF DOMAIN bag = {} THEN 0
    ELSE LET sz == CHOOSE x \in DOMAIN bag : TRUE
         IN  sz * bag[sz] + HeapBytes([x \in DOMAIN bag \ {sz} |-> bag[x]])

\* the tracker after the VM has freed c blocks of size sz through the allocator
\* (the first half of the calls is evaluated before the second, which keeps
\* the evaluation shallow)
RECURSIVE FreeBlocks(_, _, _, _)
FreeBlocks(tl, mt, sz, c) ==
    IF c = 0 THEN mt
    ELSE IF c = 1 THEN mrb_basic_alloc_func(tl, mt, Block(sz), 0).mt
    ELSE LET half == FreeBlocks(tl, mt, sz, c \div 2)
         IN  IF half.current >= 0 THEN FreeBlocks(tl, half, sz, c - c \div 2)
             ELSE half

\* the tracker after the VM has freed every block of bag through the allocator
RECURSIVE FreeAll(_, _, _)
FreeAll(tl, mt, bag) ==
    IF DOMAIN bag = {} THEN mt
    ELSE LET sz == CHOOSE x \in DOMAIN bag : TRUE
         IN  FreeAll(tl, FreeBlocks(tl, mt, sz, bag[sz]),
                     [x \in DOMAIN bag \ {sz} |-> bag[x]])

\* mrb_full_gc: the VM frees every unreachable block
mrb_full_gc(tl, st) ==
    [st EXCEPT !.mem_tracker = FreeAll(tl, st.mem_tracker, st.mrb.garbage),
               !.mrb.heap    = st.mrb.heap (-) st.mrb.garbage,
               !.mrb.garbage = EmptyBag]

\* the VM takes the block the allocator returned into its heap; kind says what
\* the VM uses it for: "vm" (its own tables), "live" (a reachable guest object)
\* or "garbage" (an object nothing refers to once the call that made it is over)
HeapAdd(st, mt, sz, kind) ==
    [st EXCEPT !.mem_tracker = mt,
               !.mrb.heap    = st.mrb.heap (+) OneBlock(sz),
               !.mrb.live    = IF kind = "live" THEN st.mrb.live (+) OneBlock(sz)
                               ELSE st.mrb.live,
               !.mrb.garbage = IF kind = "garbage" THEN st.mrb.garbage (+) OneBlock(sz)
                               ELSE st.mrb.garbage]

\* mrb_malloc_simple: ask the allocator; on NULL run a full GC and ask once more
mrb_malloc_simple(tl, st, sz, kind) ==
    LET a1 == mrb_basic_alloc_func(tl, st.mem_tracker, NullPtr, sz)
        s1 == mrb_full_gc(tl, [st EXCEPT !.mem_tracker = a1.mt])
        a2 == mrb_basic_alloc_func(tl, s1.mem_tracker, NullPtr, sz)
    IN  IF ~a1.ret.null THEN [ok |-> TRUE, st |-> HeapAdd(st, a1.mt, sz, kind)]
        ELSE IF ~a2.ret.null THEN [ok |-> TRUE, st |-> HeapAdd(s1, a2.mt, sz, kind)]
        ELSE [ok |-> FALSE, st |-> [s1 EXCEPT !.mem_tracker = a2.mt]]

\* mrb_free of one of the VM's own blocks
mrb_free(tl, st, sz) ==
    [st EXCEPT !.mem_tracker = mrb_basic_alloc_func(tl, st.mem_tracker, Block(sz), 0).mt,
               !.mrb.heap    = st.mrb.heap (-) OneBlock(sz)]

\* an incremental GC step: the VM frees one unreachable block
mrb_gc_free(tl, st, sz) ==
    [st EXCEPT !.mem_tracker = mrb_basic_alloc_func(tl, st.mem_tracker, Block(sz), 0).mt,
               !.mrb.heap    = st.mrb.heap (-) OneBlock(sz),
               !.mrb.garbage = st.mrb.garbage (-) OneBlock(sz)]

(* ----------------------------------------------------------------------- *)
(* Output capture buffer                                                    *)
(* ----------------------------------------------------------------------- *)
output_buf_init == [buf |-> "", len |-> 0, cap |-> 0]

output_buf_free(ob) == [buf |-> "", len |-> 0, cap |-> 0]

output_buf_reset(ob) == [ob EXCEPT !.len = 0, !.buf = ""]

output_buf_append(ob, str, slen) ==
    IF slen = 0 THEN ob
    ELSE LET needed == ob.len + slen + 1
             cap    == IF needed > ob.cap
                       THEN (IF needed * 2 < 256 THEN 256 ELSE needed * 2)
                       ELSE ob.cap
         IN  [buf |-> ob.buf \o str, len |-> ob.len + slen, cap |-> cap]

(* ----------------------------------------------------------------------- *)
(* Code fetch hook for timeout                                              *)
(* ----------------------------------------------------------------------- *)
\* the hook without the assignment to expired
hook_without_flag(ud, ts, clk) ==
    IF ud = NULL THEN [ts |-> ts, raise |-> FALSE, clock |-> FALSE]
    ELSE IF ts.expired THEN [ts |-> ts, raise |-> FALSE, clock |-> FALSE]
    ELSE IF ts.check_counter + 1 < TIMEOUT_CHECK_INTERVAL
    THEN [ts |-> [ts EXCEPT !.check_counter = ts.check_counter + 1],
          raise |-> FALSE, clock |-> FALSE]
    ELSE IF ts.deadline = 0
    THEN [ts |-> [ts EXCEPT !.check_counter = 0], raise |-> FALSE, clock |-> FALSE]
    ELSE [ts |-> [ts EXCEPT !.check_counter = 0], raise |-> clk >= ts.deadline,
          clock |-> TRUE]

\* one call of the hook by the VM whose ud is ud, at clock clk: the timeout
\* state afterwards, whether the hook raised and whether it read the clock
sandbox_code_fetch_hook(ud, ts, clk) ==
    IF ud = NULL THEN [ts |-> ts, raise |-> FALSE, clock |-> FALSE]
    ELSE IF ts.expired THEN [ts |-> ts, raise |-> FALSE, clock |-> FALSE]
    ELSE IF ts.check_counter + 1 < TIMEOUT_CHECK_INTERVAL
    THEN [ts |-> [ts EXCEPT !.check_counter = ts.check_counter + 1],
          raise |-> FALSE, clock |-> FALSE]
    ELSE IF ts.deadline = 0
    THEN [ts |-> [ts EXCEPT !.check_counter = 0], raise |-> FALSE, clock |-> FALSE]
    ELSE IF clk >= ts.deadline
    THEN [ts |-> [ts EXCEPT !.check_counter = 0, !.expired = TRUE],
          raise |-> TRUE, clock |-> TRUE]
    ELSE [ts |-> [ts EXCEPT !.check_counter = 0], raise |-> FALSE, clock |-> TRUE]

\* n instruction fetches in a row, each calling the hook, until one raises.
\* The calls that only count (the hook's first early returns) are taken together.
RECURSIVE HookRun(_, _, _, _)
HookRun(ud, ts, clk, n) ==
    IF n = 0 \/ ud = NULL \/ ts.expired
    THEN [ts |-> ts, raise |-> FALSE, clock |-> FALSE]
    ELSE LET room  == TIMEOUT_CHECK_INTERVAL - 1 - ts.check_counter
             quiet == IF n < room THEN n ELSE room
             one   == sandbox_code_fetch_hook(ud, ts, clk)
         IN  IF quiet > 0
             THEN HookRun(ud, [ts EXCEPT !.check_counter = ts.check_counter + quiet],
                          clk, n - quiet)
             ELSE IF one.raise THEN one
             ELSE HookRun(ud, one.ts, clk, n - 1)

(* ----------------------------------------------------------------------- *)
(* Sandbox internal state                                                   *)
(* ----------------------------------------------------------------------- *)
\* the stack slots of the top-level frame: slot 1 is _, then one per variable
NSlots == 1 + Cardinality(Vars)

\* the slot the compile context gives a local variable (0: not declared)
SlotOf(syms, v) ==
    IF \E k \in 1..Len(syms) : syms[k] = v
    THEN CHOOSE k \in 1..Len(syms) : syms[k] = v
    ELSE 0

\* mrb_vm_run entered with a stack_keep of 0
StackClearAll(stack, keep) == [k \in 1..NSlots |-> NilV]

\* mrb_vm_run's entry: the slots from stack_keep on are cleared
StackClear(stack, keep) ==
    [k \in 1..NSlots |-> IF k >= keep THEN NilV ELSE stack[k]]

\* the set of the names in func_names[0 .. func_count-1]
NameSet(names) == {names[k] : k \in 1..Len(names)}

\* mrb_open: a fresh VM; its own allocations go through the allocator
mrb_open(tl, st) ==
    LET fresh == [open |-> TRUE, ud |-> NULL, code_fetch_hook |-> FALSE,
                  exc |-> NoExc, methods |-> {},
                  stack |-> [k \in 1..NSlots |-> NilV],
                  heap |-> EmptyBag, live |-> EmptyBag, garbage |-> EmptyBag]
    IN  mrb_malloc_simple(tl, [st EXCEPT !.mrb = fresh], VmBaseSize, "vm").st

\* mrb_close: the VM frees every block it holds
mrb_close(tl, st) ==
    [st EXCEPT !.mem_tracker = FreeAll(tl, st.mem_tracker, st.mrb.heap),
               !.mrb.open    = FALSE,
               !.mrb.code_fetch_hook = FALSE,
               !.mrb.methods = {},
               !.mrb.heap    = EmptyBag,
               !.mrb.live    = EmptyBag,
               !.mrb.garbage = EmptyBag]

\* mrb_define_method of the trampoline under a name: one block for its entry
mrb_define_method(tl, st, name) ==
    LET a == mrb_malloc_simple(tl, st, FuncSize, "vm")
    IN  [a.st EXCEPT !.mrb.methods = @ \cup {name}]

\* mrb_define_method for func_names[lo..hi], in order (the first half of the
\* range is evaluated before the second, which keeps the evaluation shallow)
RECURSIVE RegisterRange(_, _, _, _)
RegisterRange(tl, st, lo, hi) ==
    IF lo > hi THEN st
    ELSE IF lo = hi THEN mrb_define_method(tl, st, st.func_names[lo])
    ELSE LET mid  == (lo + hi) \div 2
             half == RegisterRange(tl, st, lo, mid)
         IN  IF half.mem_tracker.current >= 0
             THEN RegisterRange(tl, half, mid + 1, hi)
             ELSE half

register_functions_in_mrb(tl, st, i) == RegisterRange(tl, st, i, Len(st.func_names))

\* sandbox_setup_mrb without the call of register_functions_in_mrb
setup_without_functions(tl, st) ==
    [st EXCEPT !.cxt.syms   = <<"_">>,
               !.mrb.stack  = [k \in 1..NSlots |-> NilV],
               !.stack_keep = 2]

\* sandbox_setup_mrb: the output overrides, the tool names, and the run of "_=nil"
sandbox_setup_mrb(tl, st) ==
    LET r == register_functions_in_mrb(tl, st, 1)
    IN  [r EXCEPT !.cxt.syms   = <<"_">>,
                  !.mrb.stack  = [StackClear(r.mrb.stack, 0) EXCEPT ![1] = NilV],
                  !.stack_keep = 2]

\* sandbox_state_new(timeout, memory_limit), called with tl_mem_tracker = tl
sandbox_state_new(tl, timeout, memory_limit) ==
    LET blank == [alive |-> TRUE,
                  mrb |-> [open |-> FALSE, ud |-> NULL, code_fetch_hook |-> FALSE,
                           exc |-> NoExc, methods |-> {},
                           stack |-> [k \in 1..NSlots |-> NilV],
                           heap |-> EmptyBag, live |-> EmptyBag, garbage |-> EmptyBag],
                  cxt |-> [lineno |-> 0, syms |-> <<>>],
                  stack_keep |-> 0,
                  output |-> output_buf_init,
                  callback |-> [fn |-> NULL, userdata |-> NULL],
                  func_names |-> <<>>,
                  timeout_seconds |-> timeout,
                  memory_limit |-> memory_limit,
                  mem_tracker |-> [current |-> 0, limit |-> 0, exceeded |-> FALSE],
                  timeout_state |-> [deadline |-> 0, expired |-> FALSE, check_counter |-> 0]]
        act   == mem_tracker_activate(tl, "S")
        vm    == mrb_open(act.tl, blank)
        ready == [vm EXCEPT !.mrb.ud = "S",
                            !.cxt = [lineno |-> 0, syms |-> <<>>],
                            !.stack_keep = 0,
                            !.output = output_buf_init]
    IN  [st |-> sandbox_setup_mrb(act.tl, ready), tl |-> mem_tracker_restore(act.prev)]

\* the memory of a sandbox_state_t after free(state): nothing of it is left but,
\* for the record, the tracker's last value
FreedState(mt) ==
    [alive |-> FALSE,
     mrb |-> [open |-> FALSE, ud |-> NULL, code_fetch_hook |-> FALSE,
              exc |-> NoExc, methods |-> {},
              stack |-> [k \in 1..NSlots |-> NilV],
              heap |-> EmptyBag, live |-> EmptyBag, garbage |-> EmptyBag],
     cxt |-> [lineno |-> 0, syms |-> <<>>],
     stack_keep |-> 0,
     output |-> output_buf_init,
     callback |-> [fn |-> NULL, userdata |-> NULL],
     func_names |-> <<>>,
     timeout_seconds |-> 0,
     memory_limit |-> 0,
     mem_tracker |-> mt,
     timeout_state |-> [deadline |-> 0, expired |-> FALSE, check_counter |-> 0]]

\* sandbox_state_free, called with tl_mem_tracker = tl
sandbox_state_free(tl, st) ==
    LET s0  == [st EXCEPT !.mem_tracker.limit = 0]
        act == mem_tracker_activate(tl, "S")
        s1  == mrb_close(act.tl, s0)
    IN  [st |-> FreedState(s1.mem_tracker), tl |-> mem_tracker_restore(act.prev)]

(* ----------------------------------------------------------------------- *)
(* Limit orchestration helpers                                              *)
(* ----------------------------------------------------------------------- *)
\* sandbox_limits_begin without the test of timeout_seconds
limits_begin_always_armed(tl, st, clk) ==
    LET act == mem_tracker_activate(tl, "S")
    IN  [prev |-> act.prev, tl |-> act.tl,
         st   |-> [st EXCEPT !.mem_tracker.exceeded = FALSE,
                             !.mem_tracker.limit = st.memory_limit,
                             !.timeout_state.expired = FALSE,
                             !.timeout_state.check_counter = 0,
                             !.timeout_state.deadline = clk + st.timeout_seconds,
                             !.mrb.code_fetch_hook = TRUE]]

\* sandbox_limits_begin leaving the flags and the counter as the eval before
\* left them
limits_begin_keeps_flags(tl, st, clk) ==
    LET act == mem_tracker_activate(tl, "S")
        s0  == [st EXCEPT !.mem_tracker.limit = st.memory_limit]
    IN  [prev |-> act.prev, tl |-> act.tl,
         st   |-> IF st.timeout_seconds > 0
                  THEN [s0 EXCEPT !.timeout_state.deadline = clk + st.timeout_seconds,
                                  !.mrb.code_fetch_hook = TRUE]
                  ELSE [s0 EXCEPT !.timeout_state.deadline = 0,
                                  !.mrb.code_fetch_hook = FALSE]]

\* sandbox_limits_begin, called with tl_mem_tracker = tl at clock clk
sandbox_limits_begin(tl, st, clk) ==
    LET act == mem_tracker_activate(tl, "S")
        s0  == [st EXCEPT !.mem_tracker.exceeded = FALSE,
                          !.mem_tracker.limit = st.memory_limit,
                          !.timeout_state.expired = FALSE,
                          !.timeout_state.check_counter = 0]
    IN  [prev |-> act.prev, tl |-> act.tl,
         st   |-> IF st.timeout_seconds > 0
                  THEN [s0 EXCEPT !.timeout_state.deadline = clk + st.timeout_seconds,
                                  !.mrb.code_fetch_hook = TRUE]
                  ELSE [s0 EXCEPT !.timeout_state.deadline = 0,
                                  !.mrb.code_fetch_hook = FALSE]]

\* sandbox_limits_end that removes the hook and leaves the limit armed
limits_end_keeps_limit(st) ==
    [st EXCEPT !.mrb.code_fetch_hook = FALSE]

sandbox_limits_end(st) ==
    [st EXCEPT !.mrb.code_fetch_hook = FALSE, !.mem_tracker.limit = 0]

\* sandbox_classify_error with the two tests in the other order
classify_memory_first(st) ==
    IF st.mem_tracker.exceeded THEN SANDBOX_ERROR_MEMORY_LIMIT
    ELSE IF st.timeout_state.expired THEN SANDBOX_ERROR_TIMEOUT
    ELSE SANDBOX_ERROR_RUNTIME

sandbox_classify_error(st) ==
    IF st.timeout_state.expired THEN SANDBOX_ERROR_TIMEOUT
    ELSE IF st.mem_tracker.exceeded THEN SANDBOX_ERROR_MEMORY_LIMIT
    ELSE SANDBOX_ERROR_RUNTIME

\* result.output left unset when nothing was written
CollectOutputOrNull(ob) == IF ob.len > 0 THEN ob.buf ELSE NULL

\* result.output: a copy of the buffer, or of "" when nothing was written
CollectOutput(ob) == IF ob.len > 0 THEN ob.buf ELSE ""

\* sandbox_state_reset, called with tl_mem_tracker = tl
sandbox_state_reset(tl, st) ==
    LET s0  == [st EXCEPT !.mem_tracker.limit = 0]
        act == mem_tracker_activate(tl, "S")
        s1  == mrb_close(act.tl, [s0 EXCEPT !.cxt = [lineno |-> 0, syms |-> <<>>]])
        s2  == [s1 EXCEPT !.output = output_buf_reset(s1.output),
                          !.mem_tracker.current = 0,
                          !.mem_tracker.exceeded = FALSE]
        s3  == mrb_open(act.tl, s2)
        s4  == [s3 EXCEPT !.mrb.ud = "S",
                          !.cxt = [lineno |-> 0, syms |-> <<>>],
                          !.stack_keep = 0]
    IN  [st |-> sandbox_setup_mrb(act.tl, s4), tl |-> mem_tracker_restore(act.prev)]

(* ----------------------------------------------------------------------- *)
(* Values that cross the bridge.  A guest value (mrb_value), a host value   *)
(* (VALUE) and an intermediate value (sandbox_value_t) are records of one   *)
(* shape: t the type, i the integer, s the bytes of a string or the name of *)
(* a symbol or of an object's class, items the elements of an array or the  *)
(* keys of a hash, vals the values of a hash, len the length the            *)
(* intermediate aggregate records, null whether its items / keys / vals     *)
(* pointers are NULL.  A float is a double, named by the index i of its     *)
(* bit pattern: the bridge copies it and never computes with it.            *)
(* ----------------------------------------------------------------------- *)
Leaf(t, i, s) == [t |-> t, i |-> i, s |-> s, items |-> <<>>, vals |-> <<>>,
                  len |-> 0, null |-> FALSE]

RNil        == Leaf("nil", 0, "")
RTrue       == Leaf("true", 0, "")
RFalse      == Leaf("false", 0, "")
RInt(i)     == Leaf("int", i, "")
RFlt(i)     == Leaf("flt", i, "")
RStr(s)     == Leaf("str", 0, s)
RSym(s)     == Leaf("sym", 0, s)
\* an object of a class the bridge has no case for; c is the name of its
\* class, "" for a class without a name
RObj(c)     == Leaf("obj", 0, c)
\* a host Integer (T_BIGNUM) outside the range of int64_t
RBig        == Leaf("big", 0, "")
RAry(xs)    == [t |-> "arr", i |-> 0, s |-> "", items |-> xs, vals |-> <<>>,
                len |-> Len(xs), null |-> FALSE]
RHash(ks, vs) == [t |-> "hash", i |-> 0, s |-> "", items |-> ks, vals |-> vs,
                  len |-> Len(ks), null |-> FALSE]

SANDBOX_VALUE_NIL     == "NIL"
SANDBOX_VALUE_TRUE    == "TRUE"
SANDBOX_VALUE_FALSE   == "FALSE"
SANDBOX_VALUE_INTEGER == "INTEGER"
SANDBOX_VALUE_FLOAT   == "FLOAT"
SANDBOX_VALUE_STRING  == "STRING"
SANDBOX_VALUE_ARRAY   == "ARRAY"
SANDBOX_VALUE_HASH    == "HASH"

\* memset(out, 0, sizeof(*out)): the zeroed sandbox_value_t
ZeroValue == Leaf(SANDBOX_VALUE_NIL, 0, "")

\* an array or hash whose conversion failed: type and len are set, the element
\* pointers are NULL
FailedAggregate(type, n) ==
    [t |-> type, i |-> 0, s |-> "", items |-> <<>>, vals |-> <<>>,
     len |-> n, null |-> TRUE]

\* the least index at which the sequence of booleans bs is TRUE, 0 when there
\* is none
FirstIndex(bs) ==
    IF \E k \in 1..Len(bs) : bs[k]
    THEN CHOOSE k \in 1..Len(bs) : bs[k] /\ \A j \in 1..(k - 1) : ~bs[j]
    ELSE 0

\* the elements of an array, or the keys and then the values of a hash
Children(v) == v.items \o v.vals

\* the sum of the numbers of the sequence ns
RECURSIVE Sum(_)
Sum(ns) == IF ns = <<>> THEN 0 ELSE Head(ns) + Sum(Tail(ns))

\* sandbox_value_free(val) reads through a NULL element pointer: the loop runs
\* to val->len, &items[0] is NULL and is skipped, &items[1] is not
RECURSIVE FreeFaults(_)
FreeFaults(val) ==
    IF val.t \in {SANDBOX_VALUE_ARRAY, SANDBOX_VALUE_HASH}
    THEN IF val.null THEN val.len >= 2
         ELSE \E k \in 1..Len(Children(val)) : FreeFaults(Children(val)[k])
    ELSE FALSE

\* sandbox_value_free(val), c being what it does to Children(val): val
\* afterwards, frees: the calls of free it makes on a pointer that is not NULL,
\* fault: it reads through a NULL element pointer.  The null field of a string
\* says that its ptr is NULL.
ValueFreed(val, c) ==
    CASE val.t = SANDBOX_VALUE_STRING ->
           IF val.null THEN [val |-> val, frees |-> 0, fault |-> FALSE]
           ELSE [val |-> [val EXCEPT !.null = TRUE], frees |-> 1, fault |-> FALSE]
      [] val.t \in {SANDBOX_VALUE_ARRAY, SANDBOX_VALUE_HASH} ->
           IF val.null
           THEN [val |-> val, frees |-> 0, fault |-> val.len >= 2]
           ELSE [val   |-> FailedAggregate(val.t, val.len),
                 frees |-> Sum([k \in 1..Len(c) |-> c[k].frees])
                              + (IF val.t = SANDBOX_VALUE_HASH THEN 2 ELSE 1),
                 fault |-> \E k \in 1..Len(c) : c[k].fault]
      [] OTHER -> [val |-> val, frees |-> 0, fault |-> FALSE]

RECURSIVE sandbox_value_free(_)
sandbox_value_free(val) ==
    ValueFreed(val, [k \in 1..Len(Children(val)) |->
                       sandbox_value_free(Children(val)[k])])

UnsupportedType(name) == "TypeError: unsupported type for sandbox: " \o name

Converted(out) == [rc |-> 0, out |-> out, errbuf |-> "", fault |-> FALSE,
                   raised |-> ""]

\* a conversion that stopped: it returned -1, or a host exception left it
Stops(c) == c.rc # 0 \/ c.raised # ""

\* the array or hash v converted, c being the conversions of Children(v) and
\* type the type of the aggregate: the elements are converted in order (of a
\* hash: key, value, key, ...) up to the first that stops; the clean-up of an
\* array frees the elements before it, the clean-up of a hash the pairs up to
\* and with the one that failed
AggregateConverted(v, c, type) ==
    LET n == Len(v.items)
        \* the conversion that decides the k-th element or pair
        p == [k \in 1..n |-> IF type = SANDBOX_VALUE_HASH /\ ~Stops(c[k])
                             THEN c[n + k] ELSE c[k]]
        i == FirstIndex([k \in 1..n |-> Stops(p[k])])
    IN  IF i = 0
        THEN Converted([t |-> type, i |-> 0, s |-> "",
                        items |-> [k \in 1..n |-> c[k].out],
                        vals  |-> [k \in 1..Len(v.vals) |-> c[n + k].out],
                        len |-> n, null |-> FALSE])
        ELSE IF p[i].raised # ""
        THEN [Converted(ZeroValue) EXCEPT !.raised = p[i].raised]
        ELSE [rc |-> -1, out |-> FailedAggregate(type, n), errbuf |-> p[i].errbuf,
              fault |-> p[i].fault
                          \/ (type = SANDBOX_VALUE_HASH /\ FreeFaults(p[i].out)),
              raised |-> ""]

\* mrb_to_sandbox_value(v), c being the conversions of Children(v)
MrbConverted(v, c) ==
    CASE v.t = "nil"  -> Converted(ZeroValue)
      [] v.t = "true" -> Converted(Leaf(SANDBOX_VALUE_TRUE, 0, ""))
      [] v.t = "false" -> Converted(Leaf(SANDBOX_VALUE_FALSE, 0, ""))
      [] v.t = "int"  -> Converted(Leaf(SANDBOX_VALUE_INTEGER, v.i, ""))
      [] v.t = "flt"  -> Converted(Leaf(SANDBOX_VALUE_FLOAT, v.i, ""))
      [] v.t = "str"  -> Converted(Leaf(SANDBOX_VALUE_STRING, 0, v.s))
      [] v.t = "sym"  -> Converted(Leaf(SANDBOX_VALUE_STRING, 0, v.s))
      [] v.t = "arr"  -> AggregateConverted(v, c, SANDBOX_VALUE_ARRAY)
      [] v.t = "hash" -> AggregateConverted(v, c, SANDBOX_VALUE_HASH)
      [] OTHER        -> [Converted(ZeroValue) EXCEPT !.rc = -1,
                                                     !.errbuf = UnsupportedType(v.s)]

\* mrb_to_sandbox_value: rc, *out, errbuf, and fault: a sandbox_value_free of
\* its clean-up read through a NULL pointer (raised is always "")
RECURSIVE mrb_to_sandbox_value(_)
mrb_to_sandbox_value(v) ==
    MrbConverted(v, [k \in 1..Len(Children(v)) |->
                        mrb_to_sandbox_value(Children(v)[k])])

\* rb_class_name of the class of a host object: a class without a name has a
\* temporary path
rb_class_name(c) == IF c = "" THEN "#<Class:0x1>" ELSE c

\* rb_to_sandbox_value(v), c being the conversions of Children(v)
RbConverted(v, c) ==
    CASE v.t = "nil"  -> Converted(ZeroValue)
      [] v.t = "true" -> Converted(Leaf(SANDBOX_VALUE_TRUE, 0, ""))
      [] v.t = "false" -> Converted(Leaf(SANDBOX_VALUE_FALSE, 0, ""))
      [] v.t = "int"  -> Converted(Leaf(SANDBOX_VALUE_INTEGER, v.i, ""))
      [] v.t = "flt"  -> Converted(Leaf(SANDBOX_VALUE_FLOAT, v.i, ""))
      \* NUM2LL raises for an Integer that does not fit
      [] v.t = "big"  -> [Converted(ZeroValue) EXCEPT !.raised = "RangeError"]
      [] v.t = "str"  -> Converted(Leaf(SANDBOX_VALUE_STRING, 0, v.s))
      [] v.t = "sym"  -> Converted(Leaf(SANDBOX_VALUE_STRING, 0, v.s))
      [] v.t = "arr"  -> AggregateConverted(v, c, SANDBOX_VALUE_ARRAY)
      [] v.t = "hash" -> AggregateConverted(v, c, SANDBOX_VALUE_HASH)
      [] OTHER        -> [Converted(ZeroValue) EXCEPT
                             !.rc = -1,
                             !.errbuf = UnsupportedType(rb_class_name(v.s))]

\* rb_to_sandbox_value: as mrb_to_sandbox_value, and raised: the host
\* exception that left it ("" for none)
RECURSIVE rb_to_sandbox_value(_)
rb_to_sandbox_value(v) ==
    RbConverted(v, [k \in 1..Len(Children(v)) |->
                       rb_to_sandbox_value(Children(v)[k])])

\* the byte 0 of a guest string
NUL == "~"

\* the C string at the start of the bytes s: what strlen and
\* rb_str_new_cstr see of them
RECURSIVE CString(_)
CString(s) ==
    IF s = "" \/ Head(s) = NUL THEN ""
    ELSE Head(s) \o CString(Tail(s))

\* rb_hash_aset / mrb_hash_set: the value of an equal key is replaced
HashSet(h, k, v) ==
    LET i == FirstIndex([j \in 1..Len(h.items) |-> h.items[j] = k])
    IN  IF i # 0 THEN [h EXCEPT !.vals[i] = v]
        ELSE [h EXCEPT !.items = Append(@, k), !.vals = Append(@, v), !.len = @ + 1]

RECURSIVE HashFill(_, _, _)
HashFill(h, ks, vs) ==
    IF ks = <<>> THEN h
    ELSE HashFill(HashSet(h, Head(ks), Head(vs)), Tail(ks), Tail(vs))

\* the guest or host value of the intermediate value val, c being the values
\* of Children(val)
ValueOf(val, c) ==
    CASE val.t = SANDBOX_VALUE_NIL     -> RNil
      [] val.t = SANDBOX_VALUE_TRUE    -> RTrue
      [] val.t = SANDBOX_VALUE_FALSE   -> RFalse
      [] val.t = SANDBOX_VALUE_INTEGER -> RInt(val.i)
      [] val.t = SANDBOX_VALUE_FLOAT   -> RFlt(val.i)
      [] val.t = SANDBOX_VALUE_STRING  -> RStr(val.s)
      [] val.t = SANDBOX_VALUE_ARRAY   -> RAry(c)
      [] val.t = SANDBOX_VALUE_HASH    ->
           HashFill(RHash(<<>>, <<>>), SubSeq(c, 1, Len(val.items)),
                    SubSeq(c, Len(val.items) + 1, Len(c)))
      [] OTHER -> RNil

\* sandbox_value_to_rb and sandbox_value_to_mrb: the two switch statements
\* have the same cases
RECURSIVE FromSandboxValue(_)
FromSandboxValue(val) ==
    ValueOf(val, [k \in 1..Len(Children(val)) |-> FromSandboxValue(Children(val)[k])])

sandbox_value_to_rb(val) == FromSandboxValue(val)

\* sandbox_value_to_mrb building its strings up to the first NUL byte
RECURSIVE FromSandboxValueCStr(_)
FromSandboxValueCStr(val) ==
    ValueOf([val EXCEPT !.s = CString(@)],
            [k \in 1..Len(Children(val)) |-> FromSandboxValueCStr(Children(val)[k])])

value_to_mrb_cstr(val) == FromSandboxValueCStr(val)

sandbox_value_to_mrb(val) == FromSandboxValue(val)

(* ----------------------------------------------------------------------- *)
(* Kernel#print, #puts and #p of the guest                                  *)
(* ----------------------------------------------------------------------- *)
\* String#inspect of the VM: the bytes between quotes, with escapes
RECURSIVE Escaped(_)
Escaped(s) ==
    IF s = "" THEN ""
    ELSE (CASE Head(s) = NUL  -> "\\0"
            [] Head(s) = "\n" -> "\\n"
            [] OTHER          -> Head(s)) \o Escaped(Tail(s))

\* the strings of ss joined with sep
RECURSIVE Join(_, _)
Join(ss, sep) ==
    IF ss = <<>> THEN ""
    ELSE IF Len(ss) = 1 THEN ss[1]
    ELSE ss[1] \o sep \o Join(Tail(ss), sep)

\* Object#inspect of the guest value v, c being the inspect strings of
\* Children(v)
InspectOf(v, c) ==
    CASE v.t = "nil"  -> "nil"
      [] v.t = "true" -> "true"
      [] v.t = "false" -> "false"
      [] v.t = "int"  -> ToString(v.i)
      \* the doubles of the model: index i names i + 0.5
      [] v.t = "flt"  -> ToString(v.i) \o ".5"
      [] v.t = "str"  -> "\"" \o Escaped(v.s) \o "\""
      [] v.t = "sym"  -> ":" \o v.s
      [] v.t = "arr"  -> "[" \o Join(c, ", ") \o "]"
      [] v.t = "hash" ->
           "{" \o Join([k \in 1..Len(v.items) |-> c[k] \o "=>" \o c[Len(v.items) + k]],
                       ", ") \o "}"
      [] OTHER        -> "#<" \o v.s \o ">"

\* Object#inspect of a guest value
RECURSIVE mrb_inspect(_)
mrb_inspect(v) ==
    InspectOf(v, [k \in 1..Len(Children(v)) |-> mrb_inspect(Children(v)[k])])

\* mrb_obj_as_string: to_s of a guest value
mrb_obj_as_string(v) ==
    CASE v.t = "nil" -> ""
      [] v.t = "str" -> v.s
      [] v.t = "sym" -> v.s
      [] OTHER       -> mrb_inspect(v)

\* the sequences of seqs, one after the other
RECURSIVE Flat(_)
Flat(seqs) == IF seqs = <<>> THEN <<>> ELSE Head(seqs) \o Flat(Tail(seqs))

\* the strings a call of print, puts or p hands to output_buf_append, in the
\* order of the calls
sandbox_mrb_print(argv) == [k \in 1..Len(argv) |-> mrb_obj_as_string(argv[k])]

\* one line of puts: the string, and a newline unless it ends with one
PutsLine(s) ==
    IF Len(s) = 0 \/ SubSeq(s, Len(s), Len(s)) # "\n" THEN <<s, "\n">> ELSE <<s>>

sandbox_mrb_puts(argv) ==
    IF Len(argv) = 0 THEN <<"\n">>
    ELSE Flat([i \in 1..Len(argv) |->
                 IF argv[i].t = "arr"
                 THEN Flat([j \in 1..Len(argv[i].items) |->
                              PutsLine(mrb_obj_as_string(argv[i].items[j]))])
                 ELSE PutsLine(mrb_obj_as_string(argv[i]))])

sandbox_mrb_p(argv) ==
    Flat([k \in 1..Len(argv) |-> <<mrb_inspect(argv[k]), "\n">>])

\* the override of the guest method named kind
KernelWrite(kind, argv) ==
    CASE kind = "print" -> sandbox_mrb_print(argv)
      [] kind = "puts"  -> sandbox_mrb_puts(argv)
      [] OTHER          -> sandbox_mrb_p(argv)

\* the output buffer after output_buf_append of each of strs
RECURSIVE AppendAll(_, _)
AppendAll(ob, strs) ==
    IF strs = <<>> THEN ob
    ELSE AppendAll(output_buf_append(ob, Head(strs), Len(Head(strs))), Tail(strs))

(* ----------------------------------------------------------------------- *)
(* Tool callback API                                                        *)
(* ----------------------------------------------------------------------- *)
sandbox_state_set_callback(st, fn, userdata) ==
    [st EXCEPT !.callback = [fn |-> fn, userdata |-> userdata]]

\* sandbox_state_define_function with the capacity test off by one
define_function_off_by_one(tl, st, name) ==
    IF Len(st.func_names) > SANDBOX_MAX_FUNCTIONS THEN [rc |-> -1, st |-> st]
    ELSE [rc |-> 0,
          st |-> mrb_define_method(tl, [st EXCEPT !.func_names = Append(@, name)], name)]

\* sandbox_state_define_function, called with tl_mem_tracker = tl
sandbox_state_define_function(tl, st, name) ==
    IF Len(st.func_names) >= SANDBOX_MAX_FUNCTIONS THEN [rc |-> -1, st |-> st]
    ELSE [rc |-> 0,
          st |-> mrb_define_method(tl, [st EXCEPT !.func_names = Append(@, name)], name)]

\* what the host's handler does when sandbox_cruby_callback calls it: it
\* returns value, or raises a RuntimeError with the message msg
Returns(v) == [kind |-> "return", value |-> v, msg |-> ""]
Raises(m)  == [kind |-> "raise", value |-> RNil, msg |-> m]

HostOuts == {Returns(RInt(1)), Raises("boom")}

\* Exception#inspect of the host
rb_inspect_exc(cls, msg) == "#<" \o cls \o ": " \o msg \o ">"

\* the call the host's handler saw: none
NoCall == [name |-> "", userdata |-> NULL, argc |-> 0, args |-> <<>>]

\* the handler saw the call seen under the name n with the userdata ud
SeenBy(seen, n, ud) == seen.name = n /\ seen.userdata = ud

\* what a guest call gives when neither the trampoline nor the callback ran
NoTramp == [exc |-> NoExc, ret |-> RNil, seen |-> NoCall, calls |-> 0,
            error |-> NULL, raised |-> "", fault |-> FALSE]

\* sandbox_cruby_callback from the return of the handler, seen being the call
\* the handler saw and c the conversion of the value it returned
CallbackReturns(h, seen, c) ==
    IF h.kind = "raise"
    THEN \* StringValueCStr raises for a string with a NUL byte
         IF CString(rb_inspect_exc("RuntimeError", h.msg))
               # rb_inspect_exc("RuntimeError", h.msg)
         THEN [value |-> ZeroValue, error |-> NULL, seen |-> seen,
               raised |-> "ArgumentError", fault |-> FALSE]
         ELSE [value |-> ZeroValue,
               error |-> rb_inspect_exc("RuntimeError", h.msg), seen |-> seen,
               raised |-> "", fault |-> FALSE]
    ELSE IF c.raised # ""
    THEN [value |-> ZeroValue, error |-> NULL, seen |-> seen,
          raised |-> c.raised, fault |-> FALSE]
    ELSE IF c.rc # 0
    THEN [value |-> c.out, error |-> c.errbuf, seen |-> seen,
          raised |-> "", fault |-> c.fault]
    ELSE [value |-> c.out, error |-> NULL, seen |-> seen,
          raised |-> "", fault |-> FALSE]

\* sandbox_cruby_callback handing the arguments to the handler last to first
callback_args_reversed(method_name, args, argc, userdata, h) ==
    CallbackReturns(h,
                    [name |-> method_name, userdata |-> userdata, argc |-> argc,
                     args |-> [k \in 1..argc |->
                                 sandbox_value_to_rb(args[argc + 1 - k])]],
                    rb_to_sandbox_value(h.value))

\* sandbox_cruby_callback, the handler behaving as h: the result's value and
\* error, seen: the call the handler saw, raised: the host exception that left
\* the callback ("" for none), fault: a sandbox_value_free in it read through
\* a NULL pointer
sandbox_cruby_callback(method_name, args, argc, userdata, h) ==
    CallbackReturns(h,
                    [name |-> method_name, userdata |-> userdata, argc |-> argc,
                     args |-> [k \in 1..argc |-> sandbox_value_to_rb(args[k])]],
                    rb_to_sandbox_value(h.value))

\* sandbox_function_trampoline from the return of the callback with cb
TrampolineReturns(cb) ==
    IF cb.raised # ""
    THEN [NoTramp EXCEPT !.seen = cb.seen, !.calls = 1, !.raised = cb.raised]
    ELSE IF cb.error # NULL
    THEN [exc |-> [cls |-> "RuntimeError", msg |-> cb.error],
          ret |-> RNil, seen |-> cb.seen, calls |-> 1, error |-> cb.error,
          raised |-> "", fault |-> cb.fault \/ FreeFaults(cb.value)]
    ELSE [exc |-> NoExc, ret |-> sandbox_value_to_mrb(cb.value),
          seen |-> cb.seen, calls |-> 1, error |-> NULL, raised |-> "",
          fault |-> FALSE]

\* sandbox_function_trampoline once it has the callback, c being the
\* conversions of the argc arguments
TrampolineCalls(st, name, argc, c, h) ==
    IF FirstIndex([k \in 1..Len(c) |-> Stops(c[k])]) # 0
    THEN [NoTramp EXCEPT
             !.exc = [cls |-> "TypeError",
                      msg |-> c[FirstIndex([k \in 1..Len(c) |-> Stops(c[k])])].errbuf],
             !.fault = c[FirstIndex([k \in 1..Len(c) |-> Stops(c[k])])].fault]
    ELSE TrampolineReturns(
             sandbox_cruby_callback(name, [k \in 1..Len(c) |-> c[k].out], argc,
                                    st.callback.userdata, h))

\* sandbox_function_trampoline for the guest call name(*argv), the host's
\* handler behaving as h: exc the exception it raises into the VM (NoExc:
\* none), ret the value the guest call returns, seen the call the handler saw,
\* calls the number of calls of the callback, error the error string the
\* callback returned, raised the host exception that left the callback, fault: a sandbox_value_free read through a NULL pointer
sandbox_function_trampoline(st, name, argv, h) ==
    IF st.mrb.ud = NULL \/ st.callback.fn = NULL
    THEN [NoTramp EXCEPT !.exc = NoCallbackExc]
    ELSE TrampolineCalls(st, name, Len(argv),
                         [k \in 1..Len(argv) |-> mrb_to_sandbox_value(argv[k])], h)

\* the heap buffers of one call of sandbox_function_trampoline, each with the
\* number of times it was allocated (or taken over from the callback) and the
\* number of times it was freed when the trampoline is left: sargs, the
\* argument array; args, the converted arguments (freed: handed to
\* sandbox_value_free); error, the callback's error string; err_copy, the
\* trampoline's strdup of it; value, the callback's value.  mrb_raise does not
\* return, so no statement after it runs.
NoBuffers ==
    [sargs |-> <<0, 0>>, args |-> <<0, 0>>, error |-> <<0, 0>>,
     err_copy |-> <<0, 0>>, value |-> <<0, 0>>]

TrampolineBuffers(st, name, argv, h) ==
    LET argc == Len(argv)
        c    == [k \in 1..argc |-> mrb_to_sandbox_value(argv[k])]
        stop == FirstIndex([k \in 1..argc |-> Stops(c[k])])
        cb   == sandbox_cruby_callback(name, [k \in 1..argc |-> c[k].out], argc,
                                       st.callback.userdata, h)
        arr  == IF argc > 0 THEN 1 ELSE 0
    IN  IF st.mrb.ud = NULL \/ st.callback.fn = NULL THEN NoBuffers
        ELSE IF stop # 0
        THEN \* the clean-up loop to stop - 1, free(sargs), mrb_raise
             [NoBuffers EXCEPT !.sargs = <<1, 1>>, !.args = <<stop - 1, stop - 1>>]
        ELSE IF cb.raised # ""
        THEN \* a host exception leaves the callback: nothing after the call runs
             [NoBuffers EXCEPT !.sargs = <<arr, 0>>, !.args = <<argc, 0>>]
        ELSE IF cb.error # NULL
        THEN \* strdup, free(cb_result.error), sandbox_value_free, mrb_raise
             [sargs |-> <<arr, arr>>, args |-> <<argc, argc>>, error |-> <<1, 1>>,
              err_copy |-> <<1, 0>>, value |-> <<1, 1>>]
        ELSE [NoBuffers EXCEPT !.sargs = <<arr, arr>>, !.args = <<argc, argc>>,
                               !.value = <<1, 1>>]

(* ----------------------------------------------------------------------- *)
(* The Ruby facade                                                          *)
(* ----------------------------------------------------------------------- *)
QNIL == "Qnil"

BlankResult == [value |-> NULL, output |-> NULL, error |-> NULL,
                error_kind |-> SANDBOX_ERROR_NONE, path |-> ""]

NoTriple == [value |-> "", output |-> "", error |-> ""]

\* a facade call that is still running, or that returned self / nil
Returned(op) == [op |-> op, raised |-> "", msg |-> "", triple |-> NoTriple]

\* get_enclave's refusal of a closed handle
ClosedError(op) == [op |-> op, raised |-> "RuntimeError", msg |-> "enclave is closed",
                    triple |-> NoTriple]

\* rb_str_new_cstr(ptr): a host string of the strlen(ptr) bytes at ptr
rb_str_new_cstr(ptr) == CString(ptr)

\* enclave_eval without the two typed raises
enclave_eval_untyped(res) ==
    [op |-> "eval", raised |-> "", msg |-> "",
     triple |-> [value  |-> IF res.value # NULL THEN rb_str_new_cstr(res.value) ELSE QNIL,
                 output |-> IF res.output # NULL THEN rb_str_new_cstr(res.output) ELSE "",
                 error  |-> IF res.error # NULL THEN rb_str_new_cstr(res.error) ELSE QNIL]]

\* enclave_eval after sandbox_state_eval returned res
enclave_eval(res) ==
    IF res.error_kind = SANDBOX_ERROR_TIMEOUT
    THEN [op |-> "eval", raised |-> "Enclave::TimeoutError",
          msg |-> IF res.error # NULL THEN res.error ELSE "execution timeout exceeded",
          triple |-> NoTriple]
    ELSE IF res.error_kind = SANDBOX_ERROR_MEMORY_LIMIT
    THEN [op |-> "eval", raised |-> "Enclave::MemoryLimitError",
          msg |-> IF res.error # NULL THEN res.error ELSE "memory limit exceeded",
          triple |-> NoTriple]
    ELSE [op |-> "eval", raised |-> "", msg |-> "",
          triple |-> [value  |-> IF res.value # NULL THEN rb_str_new_cstr(res.value)
                                                        ELSE QNIL,
                      output |-> IF res.output # NULL THEN rb_str_new_cstr(res.output)
                                                         ELSE "",
                      error  |-> IF res.error # NULL THEN rb_str_new_cstr(res.error)
                                                        ELSE QNIL]]

(* ----------------------------------------------------------------------- *)
(* Initial state: Enclave.new(timeout, memory_limit) has returned           *)
(* ----------------------------------------------------------------------- *)
UnboundV == [t |-> "unbound", i |-> 0]

\* the last guest call of a tool in the current eval: none
NoToolCall == [name |-> "", argv |-> <<>>, h |-> Returns(RNil), t |-> NoTramp]

\* the last call of print, puts or p in the current eval: none
NoWrite == [kind |-> "", argv |-> <<>>, bytes |-> ""]

\* binds: the value each variable was last assigned; last: the value of the last
\* successful eval; prog: the program of the last eval that ran; after_timeout:
\* the eval before the current one ended Timeout; cb: the call the host saw in
\* the current eval; call: the last guest call of a tool in the current or last
\* eval and what the trampoline did; unrescued: the eval ended with the
\* exception that call raised; written: the bytes print, puts and p appended
\* in the current or last eval; lastw: the last call of one of them; given:
\* the host values whose guest images are the arguments of that call (<<>>
\* when the arguments are the program's own)
FreshHist == [binds |-> [v \in Vars |-> UnboundV], last |-> NilV, prog |-> "",
              after_timeout |-> FALSE, cb |-> NoCall, call |-> NoToolCall,
              unrescued |-> FALSE, written |-> "", lastw |-> NoWrite,
              given |-> <<>>]

NoRun == [prog |-> "", prev |-> NULL, steps |-> 0, nlocals |-> 0]

\* enclave_alloc and enclave_initialize
enclave_initialize(tl, timeout, memory_limit) ==
    LET n == sandbox_state_new(tl, timeout, memory_limit)
    IN  [st |-> sandbox_state_set_callback(n.st, "sandbox_cruby_callback", "self"),
         tl |-> n.tl]

InitWith(timeouts, limits) ==
    \E t \in timeouts, m \in limits :
       LET i == enclave_initialize(NULL, t, m)
       IN  /\ sb = [state |-> "S", closed |-> FALSE, frees |-> 0, released |-> FALSE]
           /\ state = i.st
           /\ tl_mem_tracker = i.tl
           /\ now = 1
           /\ pc = "idle"
           /\ run = NoRun
           /\ result = BlankResult
           /\ ret = Returned("_init")
           /\ hist = FreshHist

Init == InitWith({0, TimeoutTicks}, {0, MemLimit})

(* ----------------------------------------------------------------------- *)
(* Enclave#_eval: enclave_eval and sandbox_state_eval up to mrb_vm_run      *)
(* ----------------------------------------------------------------------- *)
\* the guest programs: "any" is a finite program of at most MaxSteps steps that
\* may rescue what is raised; "loop" is `loop { }`; "grow" is
\* `a = []; loop { a << 'x' * 1024 }`; "retry" is
\* `loop { begin; loop { }; rescue; end }`.  "loop" and "grow" have no handlers
\* and end only by an exception; "retry" rescues every exception and never ends.
Progs == {"any", "loop", "grow", "retry"}

\* the lines of a source a syntax error can be on
ErrLines == {1, 2}

\* the line of the message without the rebasing against cxt->lineno
syntax_error_line_absolute(err_lineno, cxt_lineno) == err_lineno + 1

\* the line a SyntaxError message names
SyntaxErrorLine(err_lineno, cxt_lineno) == err_lineno - cxt_lineno + 1

SyntaxErrorMessage(err_lineno, cxt_lineno) ==
    "SyntaxError: syntax error (line "
        \o ToString(SyntaxErrorLine(err_lineno, cxt_lineno)) \o ")"

\* sandbox_state_eval returns res to enclave_eval, which returns or raises
EvalReturns(st, tl, res) ==
    /\ state' = st
    /\ tl_mem_tracker' = tl
    /\ result' = res
    /\ ret' = enclave_eval(res)
    /\ pc' = "idle"
    /\ run' = NoRun

HistAtEval(prog) ==
    [hist EXCEPT !.after_timeout = (result.error_kind = SANDBOX_ERROR_TIMEOUT),
                 !.prog = prog,
                 !.cb = NoCall, !.call = NoToolCall, !.unrescued = FALSE,
                 !.written = "", !.lastw = NoWrite, !.given = <<>>]

\* get_enclave without the test of sb->closed
get_enclave_unchecked == pc = "idle" /\ ~sb.released

\* get_enclave lets the call through
CanCall == pc = "idle" /\ ~sb.released /\ ~sb.closed /\ state.alive

\* mrb_parser_new fails: the parser's pool is refused by the allocator
EvalParserAllocFails ==
    /\ CanCall
    /\ LET s0 == [state EXCEPT !.output = output_buf_reset(@)]
           lb == sandbox_limits_begin(tl_mem_tracker, s0, now)
           pa == mrb_malloc_simple(lb.tl, lb.st, ParserSize, "vm")
       IN  /\ ~pa.ok
           /\ EvalReturns(pa.st, mem_tracker_restore(lb.prev),
                          [value |-> NULL, output |-> "",
                           error |-> "parser allocation failed",
                           error_kind |-> SANDBOX_ERROR_RUNTIME, path |-> "parser"])
    /\ hist' = HistAtEval("")
    /\ UNCHANGED <<sb, now>>

\* the parser reports a syntax error on line errline of the source
EvalSyntaxError(errline) ==
    /\ CanCall
    /\ LET s0 == [state EXCEPT !.output = output_buf_reset(@)]
           lb == sandbox_limits_begin(tl_mem_tracker, s0, now)
           pa == mrb_malloc_simple(lb.tl, lb.st, ParserSize, "vm")
           pf == mrb_free(lb.tl, pa.st, ParserSize)
           parser_lineno == pf.cxt.lineno
       IN  /\ pa.ok
           /\ EvalReturns(pf, mem_tracker_restore(lb.prev),
                          [value |-> NULL, output |-> CollectOutput(pf.output),
                           error |-> SyntaxErrorMessage(parser_lineno + errline - 1,
                                                        pf.cxt.lineno),
                           error_kind |-> SANDBOX_ERROR_RUNTIME, path |-> "syntax"])
    /\ hist' = HistAtEval("")
    /\ UNCHANGED <<sb, now>>

\* mrb_generate_code returns NULL
EvalCodegenFails ==
    /\ CanCall
    /\ LET s0 == [state EXCEPT !.output = output_buf_reset(@)]
           lb == sandbox_limits_begin(tl_mem_tracker, s0, now)
           pa == mrb_malloc_simple(lb.tl, lb.st, ParserSize, "vm")
           pf == mrb_free(lb.tl, pa.st, ParserSize)
       IN  /\ pa.ok
           /\ EvalReturns(pf, mem_tracker_restore(lb.prev),
                          [value |-> NULL, output |-> CollectOutput(pf.output),
                           error |-> "code generation failed",
                           error_kind |-> SANDBOX_ERROR_RUNTIME, path |-> "codegen"])
    /\ hist' = HistAtEval("")
    /\ UNCHANGED <<sb, now>>

\* the source compiles (declaring the new local variable decl, "" for none)
\* and mrb_vm_run starts running it
EvalRuns(prog, decl) ==
    /\ CanCall
    /\ state.cxt.lineno < MaxEvals
    /\ now + state.timeout_seconds <= MaxClock
    /\ decl \in (Vars \ NameSet(state.cxt.syms)) \cup {""}
    /\ LET s0 == [state EXCEPT !.output = output_buf_reset(@)]
           lb == sandbox_limits_begin(tl_mem_tracker, s0, now)
           pa == mrb_malloc_simple(lb.tl, lb.st, ParserSize, "vm")
           pf == mrb_free(lb.tl, pa.st, ParserSize)
           syms == IF decl = "" THEN pf.cxt.syms ELSE Append(pf.cxt.syms, decl)
       IN  /\ pa.ok
           /\ state' = [pf EXCEPT !.cxt.syms  = syms,
                                  !.mrb.stack = StackClear(pf.mrb.stack, pf.stack_keep)]
           /\ tl_mem_tracker' = lb.tl
           /\ run' = [prog |-> prog, prev |-> lb.prev, steps |-> 0,
                      nlocals |-> 1 + Len(syms)]
    /\ pc' = "running"
    /\ result' = BlankResult
    /\ ret' = Returned("eval")
    /\ hist' = HistAtEval(prog)
    /\ UNCHANGED <<sb, now>>

(* ----------------------------------------------------------------------- *)
(* The VM runs the program: what it does to the state between the calls     *)
(* ----------------------------------------------------------------------- *)
Executing == pc = "running" /\ state.mrb.exc = NoExc

\* one more step of the program, which takes the VM to st and the clock to clk;
\* steps counts the steps of a finite program and is the position in the body
\* (0 or 1) of a looping one
VMStepAt(st, clk) ==
    /\ state' = st
    /\ now' = clk
    /\ run' = [run EXCEPT !.steps = IF run.prog = "any" THEN run.steps + 1
                                    ELSE 1 - run.steps]
    /\ UNCHANGED <<sb, tl_mem_tracker, pc, result, ret>>

VMStep(st) == VMStepAt(st, now)

Raise(st, e) == [st EXCEPT !.mrb.exc = e]

\* the VM fetches the instructions of one sampling window, which takes it dt
\* ticks of the clock: the hook is called at each fetch, and the last call of
\* the window is the one that reads the clock
VMFetch(dt) ==
    /\ Executing
    /\ run.prog = "any" => run.steps < MaxSteps
    /\ dt > 0 => /\ state.mrb.code_fetch_hook
                 /\ now < state.timeout_state.deadline
                 /\ now + dt <= MaxClock
    /\ LET h == IF state.mrb.code_fetch_hook
                THEN HookRun(state.mrb.ud, state.timeout_state, now + dt,
                             TIMEOUT_CHECK_INTERVAL)
                ELSE [ts |-> state.timeout_state, raise |-> FALSE]
           s1 == [state EXCEPT !.timeout_state = h.ts]
       IN  VMStepAt(IF h.raise THEN Raise(s1, TimeoutExc) ELSE s1, now + dt)
    /\ UNCHANGED hist

\* the VM allocates a guest object that stays reachable; when the allocator
\* refuses twice (before and after a full GC) it raises NoMemoryError
VMAlloc ==
    /\ Executing
    /\ run.prog \in {"any", "grow"}
    /\ run.prog = "any" => run.steps < MaxSteps
    /\ state.memory_limit = 0 => HeapBytes(state.mrb.heap) + ObjSize <= MaxHeap
    /\ LET a == mrb_malloc_simple(tl_mem_tracker, state, ObjSize, "live")
       IN  VMStep(IF a.ok THEN a.st ELSE Raise(a.st, NoMemoryExc))
    /\ UNCHANGED hist

\* an incremental GC step frees an unreachable block
VMGc ==
    /\ Executing
    /\ run.prog = "any" /\ run.steps < MaxSteps
    /\ \E sz \in DOMAIN state.mrb.garbage :
          VMStep(mrb_gc_free(tl_mem_tracker, state, sz))
    /\ UNCHANGED hist

\* print / puts / p append to the output buffer
VMPrint(b) ==
    /\ Executing
    /\ run.prog = "any" /\ run.steps < MaxSteps
    /\ state.output.len < MaxOut
    /\ VMStep([state EXCEPT !.output = output_buf_append(@, b, 1)])
    /\ hist' = [hist EXCEPT !.written = @ \o b]

\* print, puts or p (kind) called with the arguments argv
VMWrite(kind, argv) ==
    /\ Executing
    /\ run.prog = "any" /\ run.steps < MaxSteps
    /\ LET strs == KernelWrite(kind, argv)
       IN  /\ state.output.len + Len(Join(strs, "")) <= MaxWrite
           /\ VMStep([state EXCEPT !.output = AppendAll(@, strs)])
           /\ hist' = [hist EXCEPT !.written = @ \o Join(strs, ""),
                                   !.lastw = [kind |-> kind, argv |-> argv,
                                              bytes |-> Join(strs, "")]]

\* an assignment to a declared top-level local variable
VMAssign(v, val) ==
    /\ Executing
    /\ run.prog = "any" /\ run.steps < MaxSteps
    /\ SlotOf(state.cxt.syms, v) > 1
    /\ VMStep([state EXCEPT !.mrb.stack[SlotOf(state.cxt.syms, v)] = val])
    /\ hist' = [hist EXCEPT !.binds[v] = val]

\* the guest raises an exception of its own
VMRaise(e) ==
    /\ Executing
    /\ run.prog = "any" /\ run.steps < MaxSteps
    /\ VMStep(Raise(state, e))
    /\ UNCHANGED hist

\* a rescue clause of the program takes the pending exception
VMRescue ==
    /\ pc = "running" /\ state.mrb.exc # NoExc
    /\ run.prog \in {"any", "retry"}
    /\ run.prog = "any" => run.steps < MaxSteps
    /\ VMStep(Raise(state, NoExc))
    /\ UNCHANGED hist

\* the guest call name(*argv), the host's handler behaving as h, and t: what
\* the trampoline does
GuestCall(name, argv, h) ==
    [name |-> name, argv |-> argv, h |-> h,
     t |-> sandbox_function_trampoline(state, name, argv, h)]

\* the trampoline of call returns to the VM, or raises into it
ToolReturns(call) ==
    /\ call.t.raised = ""
    /\ VMStep(Raise(state, call.t.exc))
    /\ hist' = [hist EXCEPT !.cb = call.t.seen, !.call = call, !.given = <<>>]

\* a host exception leaves the callback of call: rb_raise jumps to the frame
\* of the host that called eval, over the frames of the trampoline, of
\* mrb_vm_run and of sandbox_state_eval, none of which returns
ToolUnwinds(call) ==
    /\ call.t.raised # ""
    /\ ret' = [op |-> "eval", raised |-> call.t.raised, msg |-> "",
               triple |-> NoTriple]
    /\ hist' = [hist EXCEPT !.cb = call.t.seen, !.call = call, !.given = <<>>]
    /\ pc' = "unwound"
    /\ UNCHANGED <<sb, state, tl_mem_tracker, now, run, result>>

\* a sandbox_value_free of the bridge reads through a NULL pointer during call
\* and the process is killed
ToolFaults(call) ==
    /\ call.t.raised = "" /\ call.t.fault
    /\ hist' = [hist EXCEPT !.cb = call.t.seen, !.call = call, !.given = <<>>]
    /\ pc' = "crashed"
    /\ UNCHANGED <<sb, state, tl_mem_tracker, now, run, result, ret>>

\* the guest calls name(*argv), the host's handler behaving as h; a registered
\* name reaches the trampoline, which returns to the VM or raises into it (when
\* a sandbox_value_free read through a NULL pointer: in the run in which the
\* read did no harm)
VMCallTool(name, argv, h) ==
    /\ Executing
    /\ run.prog = "any" /\ run.steps < MaxSteps
    /\ IF name \in state.mrb.methods
       THEN ToolReturns(GuestCall(name, argv, h))
       ELSE /\ VMStep(Raise(state, NoMethodExc))
            /\ UNCHANGED hist

\* the guest hands the value its last call of a tool returned to the tool
\* name: name(x) with x = that value, the host's handler behaving as h
VMCallToolBack(name, h) ==
    /\ Executing
    /\ run.prog = "any" /\ run.steps < MaxSteps
    /\ name \in state.mrb.methods
    /\ hist.call.t.calls = 1 /\ hist.call.t.exc = NoExc
    /\ hist.call.t.raised = "" /\ hist.call.h.kind = "return"
    /\ LET call == GuestCall(name, <<hist.call.t.ret>>, h)
       IN  /\ call.t.raised = ""
           /\ VMStep(Raise(state, call.t.exc))
           /\ hist' = [hist EXCEPT !.cb = call.t.seen, !.call = call,
                                   !.given = <<hist.call.h.value>>]

VMCallToolUnwinds(name, argv, h) ==
    /\ Executing
    /\ run.prog = "any" /\ run.steps < MaxSteps
    /\ name \in state.mrb.methods
    /\ ToolUnwinds(GuestCall(name, argv, h))

VMCallToolFaults(name, argv, h) ==
    /\ Executing
    /\ run.prog = "any" /\ run.steps < MaxSteps
    /\ name \in state.mrb.methods
    /\ ToolFaults(GuestCall(name, argv, h))

(* ----------------------------------------------------------------------- *)
(* mrb_vm_run returns: the rest of sandbox_state_eval                       *)
(* ----------------------------------------------------------------------- *)
\* the value sandbox_state_eval leaves in the guest register _ after a run
\* that returned v without an exception
StoreLastValue(stack, v) == [stack EXCEPT ![1] = v]

\* sandbox_state_eval from the return of mrb_vm_run (which gave v) to its own
\* return, for the frame r, with tl_mem_tracker = tl
sandbox_state_eval_tail(tl, st, r, v) ==
    LET s1  == sandbox_limits_end([st EXCEPT !.stack_keep = r.nlocals])
        out == CollectOutput(s1.output)
        \* the inspect call allocates its string, unreachable after the arena restore
        s2  == mrb_malloc_simple(tl, s1, InspectSize, "garbage").st
    IN  IF s2.mrb.exc # NoExc
        THEN [st  |-> [s2 EXCEPT !.mrb.exc = NoExc, !.cxt.lineno = @ + 1],
              tl  |-> mem_tracker_restore(r.prev),
              res |-> [value |-> NULL, output |-> out,
                       error |-> ExcInspect(s2.mrb.exc),
                       error_kind |-> sandbox_classify_error(s2),
                       path |-> "exception"]]
        ELSE [st  |-> [s2 EXCEPT !.mrb.stack = StoreLastValue(s2.mrb.stack, v),
                                 !.cxt.lineno = @ + 1],
              tl  |-> mem_tracker_restore(r.prev),
              res |-> [value |-> Inspect(v), output |-> out, error |-> NULL,
                       error_kind |-> SANDBOX_ERROR_NONE, path |-> "value"]]

\* the run ends: with the pending exception, or (a finite program) with value v
VMReturn(v) ==
    /\ pc = "running"
    /\ IF state.mrb.exc # NoExc THEN v = NilV /\ run.prog # "retry"
                               ELSE run.prog = "any"
    /\ LET t == sandbox_state_eval_tail(tl_mem_tracker, state, run, v)
       IN  /\ EvalReturns(t.st, t.tl, t.res)
           /\ hist' = [hist EXCEPT !.last = IF t.res.path = "value" THEN v ELSE @,
                                   !.cb = NoCall,
                                   !.unrescued = (state.mrb.exc # NoExc
                                                  /\ state.mrb.exc = hist.call.t.exc)]
    /\ UNCHANGED <<sb, now>>

(* ----------------------------------------------------------------------- *)
(* Enclave#reset!, #_define_function, #close                                *)
(* ----------------------------------------------------------------------- *)
enclave_reset ==
    /\ CanCall
    /\ LET r == sandbox_state_reset(tl_mem_tracker, state)
       IN  state' = r.st /\ tl_mem_tracker' = r.tl
    /\ result' = BlankResult
    /\ ret' = Returned("reset!")
    /\ hist' = FreshHist
    /\ UNCHANGED <<sb, now, pc, run>>

enclave_define_function(name) ==
    /\ CanCall
    /\ LET d == sandbox_state_define_function(tl_mem_tracker, state, name)
       IN  /\ state' = d.st
           /\ ret' = IF d.rc # 0
                     THEN [op |-> "_define_function", raised |-> "RuntimeError",
                           msg |-> "too many tool functions (max 64)",
                           triple |-> NoTriple]
                     ELSE Returned("_define_function")
    /\ result' = BlankResult
    /\ UNCHANGED <<sb, tl_mem_tracker, now, pc, run, hist>>

\* enclave_close that neither clears sb->state nor sets sb->closed
close_without_flag ==
    /\ pc = "idle" /\ ~sb.released
    /\ LET f == sandbox_state_free(tl_mem_tracker, state)
       IN  /\ state' = f.st
           /\ tl_mem_tracker' = f.tl
           /\ sb' = [sb EXCEPT !.frees = @ + 1]
    /\ result' = BlankResult
    /\ ret' = Returned("close")
    /\ UNCHANGED <<now, pc, run, hist>>

enclave_close ==
    /\ pc = "idle" /\ ~sb.released
    /\ IF ~sb.closed
       THEN IF sb.state # NULL
            THEN LET f == sandbox_state_free(tl_mem_tracker, state)
                 IN  /\ state' = f.st
                     /\ tl_mem_tracker' = f.tl
                     /\ sb' = [sb EXCEPT !.state = NULL, !.closed = TRUE,
                                         !.frees = @ + 1]
            ELSE /\ sb' = [sb EXCEPT !.closed = TRUE]
                 /\ UNCHANGED <<state, tl_mem_tracker>>
       ELSE UNCHANGED <<sb, state, tl_mem_tracker>>
    /\ result' = BlankResult
    /\ ret' = Returned("close")
    /\ UNCHANGED <<now, pc, run, hist>>

\* _eval, reset! or _define_function on a closed handle: get_enclave raises
CallOnClosed(op) ==
    /\ pc = "idle" /\ ~sb.released /\ sb.closed
    /\ ret' = ClosedError(op)
    /\ result' = BlankResult
    /\ UNCHANGED <<sb, state, tl_mem_tracker, now, pc, run, hist>>

\* the host's garbage collector releases the handle, which nothing uses any more
rb_enclave_free ==
    /\ pc = "idle" /\ ~sb.released
    /\ IF sb.state # NULL
       THEN LET f == sandbox_state_free(tl_mem_tracker, state)
            IN  /\ state' = f.st
                /\ tl_mem_tracker' = f.tl
                /\ sb' = [sb EXCEPT !.state = NULL, !.frees = @ + 1,
                                    !.released = TRUE]
       ELSE /\ sb' = [sb EXCEPT !.released = TRUE]
            /\ UNCHANGED <<state, tl_mem_tracker>>
    /\ UNCHANGED <<now, pc, run, result, ret, hist>>

Next ==
    \/ EvalParserAllocFails
    \/ \E l \in ErrLines : EvalSyntaxError(l)
    \/ EvalCodegenFails
    \/ \E p \in Progs, d \in Vars \cup {""} : EvalRuns(p, d)
    \/ \E dt \in {0, 1} : VMFetch(dt)
    \/ VMAlloc
    \/ VMGc
    \/ \E b \in OutBytes : VMPrint(b)
    \/ \E v \in Vars, val \in Val : VMAssign(v, val)
    \/ \E e \in GuestExcs : VMRaise(e)
    \/ VMRescue
    \/ \E n \in ToolNames, o \in HostOuts : VMCallTool(n, <<>>, o)
    \/ \E v \in Val : VMReturn(v)
    \/ enclave_reset
    \/ \E n \in ToolNames :
          Len(state.func_names) < MaxNames /\ enclave_define_function(n)
    \/ enclave_close
    \/ \E op \in {"_eval", "reset!", "_define_function"} : CallOnClosed(op)

Spec == Init /\ [][Next]_vars

(* ----------------------------------------------------------------------- *)
(* The same session under fairness: the VM's thread keeps running, so a    *)
(* running program keeps fetching instructions, the                         *)
(* clock advances under a running program until its deadline, a program     *)
(* that allocates keeps allocating, a handler that can take the pending     *)
(* exception runs, and mrb_vm_run returns once no handler is left for the   *)
(* pending exception or the program has ended.                              *)
(* ----------------------------------------------------------------------- *)
LiveSpec ==
    /\ Init /\ [][Next]_vars
    /\ WF_vars(VMFetch(0))
    /\ WF_vars(VMFetch(1))
    /\ WF_vars(VMAlloc)
    /\ WF_vars(VMRescue)
    /\ WF_vars(\E v \in Val : VMReturn(v))

(* ----------------------------------------------------------------------- *)
(* A session on which the host registers tools up to the capacity of        *)
(* func_names, resets and closes; no guest code runs.                       *)
(* ----------------------------------------------------------------------- *)
CapInit == InitWith({0}, {0, MemLimit})

CapNext ==
    \/ \E n \in ToolNames : enclave_define_function(n)
    \/ enclave_reset
    \/ enclave_close
    \/ \E op \in {"_eval", "reset!", "_define_function"} : CallOnClosed(op)
    \/ rb_enclave_free

CapSpec == CapInit /\ [][CapNext]_vars

(* ----------------------------------------------------------------------- *)
(* A session without limits whose programs write output and call a tool     *)
(* with arguments, the host's handler answering with values of every kind   *)
(* ----------------------------------------------------------------------- *)
\* the argument lists of print, puts and p
WriteArgs ==
    { <<>>,
      <<RStr("a")>>,
      <<RStr("b\n")>>,
      <<RStr("a" \o NUL \o "b")>>,
      <<RInt(1), RInt(2)>>,
      <<RAry(<<RInt(1), RInt(2)>>)>>,
      <<RAry(<<RInt(1), RAry(<<RInt(2), RInt(3)>>)>>)>> }

\* the argument lists of a guest call of a tool
ToolArgs ==
    { <<>>,
      <<RInt(1)>>,
      <<RSym("a"), RStr("a" \o NUL \o "b")>>,
      <<RAry(<<RInt(1), RStr("a")>>)>>,
      <<RHash(<<RSym("k")>>, <<RInt(2)>>)>>,
      <<RObj("")>>,
      <<RInt(1), RObj("Object")>>,
      <<RAry(<<RObj("Object")>>)>>,
      <<RHash(<<RStr("k")>>, <<RAry(<<RInt(1), RObj("Object")>>)>>), RObj("Object")>> }

\* what the host's handler does
Handlers ==
    { Returns(RInt(1)),
      Returns(RSym("a")),
      Returns(RStr("a" \o NUL \o "b")),
      Returns(RAry(<<RInt(1), RHash(<<RSym("k")>>, <<RNil>>)>>)),
      Returns(RObj("Object")),
      Returns(RObj("")),
      Returns(RAry(<<RObj("Object")>>)),
      Returns(RAry(<<RInt(1), RObj("Object")>>)),
      Returns(RHash(<<RStr("k")>>, <<RObj("Object")>>)),
      Returns(RBig),
      Returns(RAry(<<RInt(1), RBig>>)),
      Returns(RAry(<<RTrue, RFalse, RFlt(1), RNil, RAry(<<>>), RHash(<<>>, <<>>)>>)),
      Returns(RHash(<<RSym("k"), RInt(2), RStr("s"), RAry(<<RSym("a")>>)>>,
                    <<RAry(<<RInt(1), RStr("a" \o NUL \o "b")>>), RSym("v"),
                      RHash(<<RFlt(1)>>, <<RSym("w")>>), RNil>>)),
      Returns(RHash(<<RSym("a"), RStr("a")>>, <<RInt(1), RInt(2)>>)),
      Raises("boom"),
      Raises("a" \o NUL \o "b") }

BridgeInit == InitWith({0}, {0})

BridgeNext ==
    \/ \E n \in ToolNames :
          Len(state.func_names) < MaxNames /\ enclave_define_function(n)
    \/ EvalRuns("any", "")
    \/ \E k \in {"print", "puts", "p"}, a \in WriteArgs : VMWrite(k, a)
    \/ \E n \in ToolNames, a \in ToolArgs, h \in Handlers : VMCallTool(n, a, h)
    \/ \E n \in ToolNames : VMCallToolBack(n, Returns(RNil))
    \/ \E n \in ToolNames, a \in ToolArgs, h \in Handlers : VMCallToolUnwinds(n, a, h)
    \/ \E n \in ToolNames, a \in ToolArgs, h \in Handlers : VMCallToolFaults(n, a, h)
    \/ \E e \in GuestExcs : VMRaise(e)
    \/ VMRescue
    \/ \E v \in Val : VMReturn(v)

BridgeSpec == BridgeInit /\ [][BridgeNext]_vars

(* ----------------------------------------------------------------------- *)
(* Two sessions, A and B, on the threads of one host.  Here state holds the *)
(* sandbox_state_t of each session, sb the handle of each with the thread   *)
(* that uses it, tl_mem_tracker the slot of each thread (NULL, or the       *)
(* session whose tracker it points to) and pc the facade calls in progress  *)
(* on each thread, innermost last: an eval is in the VM ("vm") or in the    *)
(* host's handler of a tool ("handler"), from where the host can call the   *)
(* facade again.  The handlers return normally.  hist.foreign collects the  *)
(* pairs <<s, o>> such that the allocator was called for the VM of s while  *)
(* the slot pointed to the tracker of another session o.                    *)
(* ----------------------------------------------------------------------- *)
Sessions == {"A", "B"}
Threads  == {1, 2}

\* a session that has not been created
Absent == FreedState([current |-> 0, limit |-> 0, exceeded |-> FALSE])

\* the slot after a call of mem_tracker_activate(&state->mem_tracker) made for
\* session s
SlotIn(s, tl) == IF tl = "S" THEN s ELSE tl

\* what the allocator sees of the slot: no tracker, or one
ActiveIn(slot) == IF slot = NULL THEN NULL ELSE "S"

\* session s as the allocator works on it when the slot of the calling thread
\* is slot: the tracker it reads and writes is the one the slot points to
Borrow(all, s, slot) ==
    IF slot \in Sessions \ {s}
    THEN [all[s] EXCEPT !.mem_tracker = all[slot].mem_tracker]
    ELSE all[s]

\* the sessions after work on the VM of s, done with the slot at slot, that
\* took Borrow(all, s, slot) to st
GiveBack(all, s, slot, st) ==
    IF slot \in Sessions \ {s}
    THEN [all EXCEPT ![s] = [st EXCEPT !.mem_tracker = all[s].mem_tracker],
                     ![slot].mem_tracker = st.mem_tracker]
    ELSE [all EXCEPT ![s] = st]

\* the pairs of hist.foreign after an allocator call for the VM of s
Charged(s, slot) ==
    IF slot \in Sessions \ {s} THEN hist.foreign \cup {<<s, slot>>}
    ELSE hist.foreign

ThreadOf(s) == sb[s].thread

\* tl_mem_tracker declared static without __thread: one slot for all threads
shared_slot(t) == 1

\* static __thread: the slot thread t reads and writes is its own
ThreadSlot(t) == t

\* the innermost facade call in progress on thread t
Top(t) == pc[t][Len(pc[t])]

\* thread t is in host code: at top level, or in the handler of a tool
InHost(t) == IF pc[t] = <<>> THEN TRUE ELSE Top(t).at = "handler"

\* no eval of session s is in progress
NotRunning(s) ==
    \A t \in Threads : \A k \in 1..Len(pc[t]) : pc[t][k].s # s

\* the host can call the facade on the open session s
CanCallOn(s) ==
    /\ state[s].alive /\ ~sb[s].closed
    /\ NotRunning(s)
    /\ InHost(ThreadOf(s))

MultiInit(owner) ==
    /\ sb = [s \in Sessions |-> [thread |-> owner[s], closed |-> FALSE]]
    /\ state = [s \in Sessions |->
                  IF s = "A" THEN enclave_initialize(NULL, 0, MemLimit).st
                  ELSE Absent]
    /\ tl_mem_tracker = [t \in Threads |-> NULL]
    /\ pc = [t \in Threads |-> <<>>]
    /\ now = 1
    /\ run = NoRun
    /\ result = BlankResult
    /\ ret = Returned("_init")
    /\ hist = [foreign |-> {}]

\* Enclave.new(memory_limit: limit) for the handle s
MNew(s, limit) ==
    /\ ~state[s].alive /\ ~sb[s].closed
    /\ InHost(ThreadOf(s))
    /\ LET n == enclave_initialize(tl_mem_tracker[ThreadSlot(ThreadOf(s))], 0, limit)
       IN  /\ state' = [state EXCEPT ![s] = n.st]
           /\ tl_mem_tracker' = [tl_mem_tracker EXCEPT ![ThreadSlot(ThreadOf(s))] = SlotIn(s, n.tl)]
    /\ UNCHANGED <<sb, pc, now, run, result, ret, hist>>

MDefineFunction(s, name) ==
    /\ CanCallOn(s)
    /\ Len(state[s].func_names) < MaxNames
    /\ LET slot == tl_mem_tracker[ThreadSlot(ThreadOf(s))]
           d == sandbox_state_define_function(ActiveIn(slot),
                                              Borrow(state, s, slot), name)
       IN  /\ state' = GiveBack(state, s, slot, d.st)
           /\ hist' = [hist EXCEPT !.foreign = Charged(s, slot)]
    /\ UNCHANGED <<sb, tl_mem_tracker, pc, now, run, result, ret>>

MReset(s) ==
    /\ CanCallOn(s)
    /\ LET r == sandbox_state_reset(tl_mem_tracker[ThreadSlot(ThreadOf(s))], state[s])
       IN  /\ state' = [state EXCEPT ![s] = r.st]
           /\ tl_mem_tracker' = [tl_mem_tracker EXCEPT ![ThreadSlot(ThreadOf(s))] = SlotIn(s, r.tl)]
    /\ UNCHANGED <<sb, pc, now, run, result, ret, hist>>

MClose(s) ==
    /\ CanCallOn(s)
    /\ LET f == sandbox_state_free(tl_mem_tracker[ThreadSlot(ThreadOf(s))], state[s])
       IN  /\ state' = [state EXCEPT ![s] = f.st]
           /\ tl_mem_tracker' = [tl_mem_tracker EXCEPT ![ThreadSlot(ThreadOf(s))] = SlotIn(s, f.tl)]
    /\ sb' = [sb EXCEPT ![s].closed = TRUE]
    /\ UNCHANGED <<pc, now, run, result, ret, hist>>

\* eval on s whose source has a syntax error
MEvalSyntaxError(s) ==
    /\ CanCallOn(s)
    /\ LET s0 == [state[s] EXCEPT !.output = output_buf_reset(@)]
           lb == sandbox_limits_begin(tl_mem_tracker[ThreadSlot(ThreadOf(s))], s0, now)
           pa == mrb_malloc_simple(lb.tl, lb.st, ParserSize, "vm")
           pf == mrb_free(lb.tl, pa.st, ParserSize)
       IN  /\ pa.ok
           /\ state' = [state EXCEPT ![s] = pf]
           /\ tl_mem_tracker' = [tl_mem_tracker EXCEPT
                                    ![ThreadSlot(ThreadOf(s))] = mem_tracker_restore(lb.prev)]
    /\ UNCHANGED <<sb, pc, now, run, result, ret, hist>>

\* eval on s up to mrb_vm_run
MEvalRuns(s) ==
    /\ CanCallOn(s)
    /\ state[s].cxt.lineno < MaxEvals
    /\ LET s0 == [state[s] EXCEPT !.output = output_buf_reset(@)]
           lb == sandbox_limits_begin(tl_mem_tracker[ThreadSlot(ThreadOf(s))], s0, now)
           pa == mrb_malloc_simple(lb.tl, lb.st, ParserSize, "vm")
           pf == mrb_free(lb.tl, pa.st, ParserSize)
       IN  /\ pa.ok
           /\ state' = [state EXCEPT ![s] = pf]
           /\ tl_mem_tracker' = [tl_mem_tracker EXCEPT ![ThreadSlot(ThreadOf(s))] = SlotIn(s, lb.tl)]
           /\ pc' = [pc EXCEPT ![ThreadOf(s)] =
                        Append(@, [s |-> s, prev |-> lb.prev, at |-> "vm",
                                   steps |-> 0, nlocals |-> 1 + Len(pf.cxt.syms)])]
    /\ UNCHANGED <<sb, now, run, result, ret, hist>>

\* the VM running on thread t takes a step
MRunning(t) ==
    /\ pc[t] # <<>> /\ Top(t).at = "vm"
    /\ state[Top(t).s].mrb.exc = NoExc
    /\ Top(t).steps < MaxSteps

MStep(t) == [pc EXCEPT ![t][Len(pc[t])].steps = @ + 1]

\* the VM running on thread t allocates a guest object
MVmAlloc(t) ==
    /\ MRunning(t)
    /\ LET s == Top(t).s
           slot == tl_mem_tracker[ThreadSlot(t)]
           a == mrb_malloc_simple(ActiveIn(slot), Borrow(state, s, slot),
                                  ObjSize, "live")
       IN  /\ state[s].memory_limit = 0
                 => HeapBytes(state[s].mrb.heap) + ObjSize <= MaxHeap
           /\ state' = GiveBack(state, s, slot,
                                IF a.ok THEN a.st ELSE Raise(a.st, NoMemoryExc))
           /\ hist' = [hist EXCEPT !.foreign = Charged(s, slot)]
    /\ pc' = MStep(t)
    /\ UNCHANGED <<sb, tl_mem_tracker, now, run, result, ret>>

\* the guest program running on thread t calls a tool: the trampoline calls
\* the host's handler
MCallTool(t) ==
    /\ MRunning(t)
    /\ state[Top(t).s].mrb.methods # {}
    /\ pc' = [MStep(t) EXCEPT ![t][Len(pc[t])].at = "handler"]
    /\ UNCHANGED <<sb, state, tl_mem_tracker, now, run, result, ret, hist>>

\* the handler running on thread t returns to the trampoline
MToolReturns(t) ==
    /\ pc[t] # <<>> /\ Top(t).at = "handler"
    /\ pc' = [pc EXCEPT ![t][Len(pc[t])].at = "vm"]
    /\ UNCHANGED <<sb, state, tl_mem_tracker, now, run, result, ret, hist>>

\* mrb_vm_run returns on thread t: the rest of sandbox_state_eval
MEvalReturns(t) ==
    /\ pc[t] # <<>> /\ Top(t).at = "vm"
    /\ LET s == Top(t).s
           slot == tl_mem_tracker[ThreadSlot(t)]
           e == sandbox_state_eval_tail(ActiveIn(slot), Borrow(state, s, slot),
                                        Top(t), NilV)
       IN  /\ state' = GiveBack(state, s, slot, e.st)
           /\ tl_mem_tracker' = [tl_mem_tracker EXCEPT ![ThreadSlot(t)] = Top(t).prev]
           /\ hist' = [hist EXCEPT !.foreign = Charged(s, slot)]
    /\ pc' = [pc EXCEPT ![t] = SubSeq(@, 1, Len(@) - 1)]
    /\ UNCHANGED <<sb, now, run, result, ret>>

MultiNext ==
    \/ \E s \in Sessions, m \in {0, MemLimit} : MNew(s, m)
    \/ \E s \in Sessions, n \in ToolNames : MDefineFunction(s, n)
    \/ \E s \in Sessions : MReset(s)
    \/ \E s \in Sessions : MClose(s)
    \/ \E s \in Sessions : MEvalSyntaxError(s)
    \/ \E s \in Sessions : MEvalRuns(s)
    \/ \E t \in Threads : MVmAlloc(t)
    \/ \E t \in Threads : MCallTool(t)
    \/ \E t \in Threads : MToolReturns(t)
    \/ \E t \in Threads : MEvalReturns(t)

\* both sessions are used from thread 1: calls on one are made at top level
\* or from a tool handler of the other
NestSpec == MultiInit([s \in Sessions |-> 1]) /\ [][MultiNext]_vars

\* the evals of session s in progress on thread t
FramesOf(t, s) == {k \in 1..Len(pc[t]) : pc[t][k].s = s}

\* the host's handler of a tool of s, called by the eval of s in progress,
\* calls eval on s: get_enclave tests closed alone, so sandbox_state_eval
\* runs up to mrb_vm_run on the VM that is executing the outer program
MEvalReenters(s) ==
    /\ state[s].alive /\ ~sb[s].closed
    /\ pc[ThreadOf(s)] # <<>>
    /\ Top(ThreadOf(s)).s = s /\ Top(ThreadOf(s)).at = "handler"
    /\ Cardinality(FramesOf(ThreadOf(s), s)) < MaxDepth
    /\ state[s].cxt.lineno < MaxEvals
    /\ LET s0 == [state[s] EXCEPT !.output = output_buf_reset(@)]
           lb == sandbox_limits_begin(ActiveIn(tl_mem_tracker[ThreadSlot(ThreadOf(s))]),
                                      s0, now)
           pa == mrb_malloc_simple(lb.tl, lb.st, ParserSize, "vm")
           pf == mrb_free(lb.tl, pa.st, ParserSize)
       IN  /\ pa.ok
           /\ state' = [state EXCEPT ![s] = pf]
           /\ tl_mem_tracker' = [tl_mem_tracker EXCEPT
                                    ![ThreadSlot(ThreadOf(s))] = SlotIn(s, lb.tl)]
           /\ pc' = [pc EXCEPT ![ThreadOf(s)] =
                        Append(@, [s |-> s,
                                   prev |-> tl_mem_tracker[ThreadSlot(ThreadOf(s))],
                                   at |-> "vm", steps |-> 0,
                                   nlocals |-> 1 + Len(pf.cxt.syms)])]
    /\ UNCHANGED <<sb, now, run, result, ret, hist>>

ReenterNext ==
    \/ MultiNext
    \/ \E s \in Sessions : MEvalReenters(s)

\* both sessions on thread 1, the handlers of a session's tools calling eval
\* on any session, their own included
ReenterSpec == MultiInit([s \in Sessions |-> 1]) /\ [][ReenterNext]_vars

\* session A is used from thread 1 and session B from thread 2, the two
\* threads running in any interleaving
ThreadSpec ==
    MultiInit([s \in Sessions |-> IF s = "A" THEN 1 ELSE 2]) /\ [][MultiNext]_vars

(* ----------------------------------------------------------------------- *)
(* A caller of the bridge that converts a value into a sandbox_value_t of   *)
(* its own and then hands that to sandbox_value_free, as the trampoline     *)
(* does with the arguments and with the callback's result.  Here run is the *)
(* value and the side it is on, result the conversion (rc, *out, errbuf),   *)
(* ret the calls of sandbox_value_free made on *out and the calls of free   *)
(* the last of them made, and pc "idle", "converted", "unwound" (a host     *)
(* exception left the conversion) or "crashed" (an invalid read).           *)
(* ----------------------------------------------------------------------- *)
\* the values a guest program passes and a handler returns
BridgeValues ==
    UNION {{a[k] : k \in 1..Len(a)} : a \in ToolArgs}
       \cup {h.value : h \in Handlers}
       \cup {RStr(""), RAry(<<>>), RHash(<<>>, <<>>),
             RAry(<<RStr("a"), RStr("b"), RStr("c")>>),
             RAry(<<RAry(<<RStr("a"), RInt(1)>>), RObj("Object")>>),
             RHash(<<RObj("Object")>>, <<RInt(1)>>),
             RHash(<<RInt(1), RAry(<<RInt(1), RObj("Object")>>)>>,
                   <<RStr("a"), RInt(2)>>),
             RHash(<<RInt(1), RInt(2)>>, <<RStr("a"), RObj("Object")>>)}

ValueInit ==
    /\ run \in [v : BridgeValues, side : {"host", "guest"}]
    /\ result = Converted(ZeroValue)
    /\ ret = [calls |-> 0, frees |-> 0]
    /\ pc = "idle"
    /\ sb = NULL /\ state = Absent /\ tl_mem_tracker = NULL
    /\ now = 1 /\ hist = <<>>

\* rb_to_sandbox_value or mrb_to_sandbox_value of the value into *out
ConvertValue ==
    /\ pc = "idle"
    /\ LET c == IF run.side = "host" THEN rb_to_sandbox_value(run.v)
                ELSE mrb_to_sandbox_value(run.v)
       IN  /\ result' = c
           /\ pc' = IF c.raised # "" THEN "unwound"
                    ELSE IF c.fault THEN "crashed"
                    ELSE "converted"
    /\ UNCHANGED <<sb, state, tl_mem_tracker, now, run, ret, hist>>

\* sandbox_value_free(out), once more
FreeValue ==
    /\ pc = "converted"
    /\ ret.calls < MaxFrees
    /\ LET f == sandbox_value_free(result.out)
       IN  /\ result' = [result EXCEPT !.out = f.val]
           /\ ret' = [calls |-> ret.calls + 1, frees |-> f.frees]
           /\ pc' = IF f.fault THEN "crashed" ELSE "converted"
    /\ UNCHANGED <<sb, state, tl_mem_tracker, now, run, hist>>

ValueNext == ConvertValue \/ FreeValue

ValueSpec == ValueInit /\ [][ValueNext]_vars

(* ----------------------------------------------------------------------- *)
(* The allocator on its own: a VM that mallocs, reallocs and frees blocks   *)
(* through mrb_basic_alloc_func with the session's tracker active.  state   *)
(* is [mem_tracker, blocks] (blocks: the bag of the live blocks' headers)   *)
(* and ret the last call: [op, old, size, ptr, before], old being the       *)
(* header of the block passed in (0 for none), ptr the pointer returned     *)
(* and before the state on entry.                                           *)
(* ----------------------------------------------------------------------- *)
AllocSizes == 1..MaxAlloc

AllocInit ==
    /\ \E limit \in {0, MemLimit} :
          state = [mem_tracker |-> [current |-> 0, limit |-> limit, exceeded |-> FALSE],
                   blocks |-> EmptyBag]
    /\ ret = [op |-> "none", old |-> 0, size |-> 0, ptr |-> NullPtr, before |-> <<>>]
    /\ tl_mem_tracker = "S"
    /\ sb = NULL /\ now = 1 /\ pc = "idle" /\ run = <<>> /\ result = <<>>
    /\ hist = <<>>

\* the call mrb_basic_alloc_func(ptr, size) made by the VM, which keeps the
\* block returned and forgets the one released
AllocCall(op, ptr, size) ==
    /\ state.mem_tracker.limit = 0
          => HeapBytes(state.blocks) - ptr.hdr + size <= MaxHeap
    /\ LET a == mrb_basic_alloc_func(tl_mem_tracker, state.mem_tracker, ptr, size)
           released == IF ptr.null \/ (size # 0 /\ a.ret.null) THEN EmptyBag
                       ELSE OneBlock(ptr.hdr)
           taken == IF a.ret.null THEN EmptyBag ELSE OneBlock(a.ret.hdr)
       IN  /\ state' = [mem_tracker |-> a.mt,
                        blocks |-> (state.blocks (-) released) (+) taken]
           /\ ret' = [op |-> op, old |-> ptr.hdr, size |-> size, ptr |-> a.ret,
                      before |-> state]
    /\ UNCHANGED <<sb, tl_mem_tracker, now, pc, run, result, hist>>

Malloc(size) ==
    /\ size > 0
    /\ AllocCall("malloc", NullPtr, size)

Realloc(old, size) ==
    /\ old \in DOMAIN state.blocks
    /\ AllocCall("realloc", Block(old), size)

Free(old) ==
    /\ old \in DOMAIN state.blocks
    /\ AllocCall("free", Block(old), 0)

\* the request passes the limit check and the C library's malloc or realloc
\* returns NULL: the allocator returns NULL and touches nothing
LibcRefuses(op, ptr, size) ==
    /\ ~mrb_basic_alloc_func(tl_mem_tracker, state.mem_tracker, ptr, size).ret.null
    /\ ret' = [op |-> op, old |-> ptr.hdr, size |-> size, ptr |-> NullPtr,
               before |-> state]
    /\ UNCHANGED <<sb, state, tl_mem_tracker, now, pc, run, result, hist>>

MallocLibcRefuses(size) ==
    /\ size > 0
    /\ LibcRefuses("malloc", NullPtr, size)

ReallocLibcRefuses(old, size) ==
    /\ old \in DOMAIN state.blocks
    /\ LibcRefuses("realloc", Block(old), size)

AllocNext ==
    \/ \E size \in AllocSizes : Malloc(size)
    \/ \E old \in AllocSizes, size \in AllocSizes : Realloc(old, size)
    \/ \E old \in AllocSizes : Free(old)
    \/ \E size \in AllocSizes : MallocLibcRefuses(size)
    \/ \E old \in AllocSizes, size \in AllocSizes : ReallocLibcRefuses(old, size)

AllocSpec == AllocInit /\ [][AllocNext]_vars

(* ----------------------------------------------------------------------- *)
(* The output buffer on its own, byte by byte: buf is the pointer (NULL or  *)
(* the block "B"), mem the bytes of the block written so far, from offset 0 *)
(* (the bytes after them are indeterminate), fault whether the process has  *)
(* stopped at a write through a null pointer.                               *)
(* ----------------------------------------------------------------------- *)
OutStrs == {<<>>, <<"a">>, <<"a", "b">>, [i \in 1..LongWrite |-> "a"]}

\* memcpy of bytes to offset at of the block whose written bytes are mem
Write(mem, at, bytes) ==
    LET n  == Len(bytes)
        hi == IF Len(mem) > at + n THEN Len(mem) ELSE at + n
    IN  [i \in 1..hi |-> IF i > at /\ i <= at + n THEN bytes[i - at] ELSE mem[i]]

OutInit ==
    /\ state = [buf |-> NULL, mem |-> <<>>, len |-> 0, cap |-> 0, fault |-> FALSE]
    /\ ret = [op |-> "init", n |-> 0]
    /\ tl_mem_tracker = NULL
    /\ sb = NULL /\ now = 1 /\ pc = "idle" /\ run = <<>> /\ result = <<>>
    /\ hist = <<>>

\* the strings the model appends at the length the buffer has
OutFits(str) ==
    IF Len(str) = LongWrite THEN state.len < 2 * LongWrite
    ELSE (state.len % LongWrite) + Len(str) <= MaxTail

\* the capacity output_buf_append asks realloc for when needed > cap
OutGrow(needed) == IF needed * 2 < 256 THEN 256 ELSE needed * 2

\* output_buf_append(ob, str, slen), realloc granting what it is asked
OutAppend(str) ==
    /\ ~state.fault /\ OutFits(str)
    /\ LET slen   == Len(str)
           needed == state.len + slen + 1
       IN  IF slen = 0 THEN state' = state
           ELSE state' = [buf |-> "B",
                          mem |-> Write(state.mem, state.len, str \o <<NUL>>),
                          len |-> state.len + slen,
                          cap |-> IF needed > state.cap THEN OutGrow(needed)
                                  ELSE state.cap,
                          fault |-> FALSE]
    /\ ret' = [op |-> "append", n |-> Len(str)]
    /\ UNCHANGED <<sb, tl_mem_tracker, now, pc, run, result, hist>>

\* output_buf_append when realloc returns NULL: cap has its new value, buf
\* is NULL and the old block is lost; memcpy then writes through NULL + len
OutAppendReallocFails(str) ==
    /\ ~state.fault /\ OutFits(str)
    /\ Len(str) > 0
    /\ state.len + Len(str) + 1 > state.cap
    /\ state' = [buf |-> NULL, mem |-> <<>>, len |-> state.len,
                 cap |-> OutGrow(state.len + Len(str) + 1), fault |-> TRUE]
    /\ ret' = [op |-> "append", n |-> Len(str)]
    /\ UNCHANGED <<sb, tl_mem_tracker, now, pc, run, result, hist>>

\* output_buf_reset(ob)
OutReset ==
    /\ ~state.fault
    /\ state' = [state EXCEPT !.len = 0,
                              !.mem = IF state.buf # NULL THEN Write(@, 0, <<NUL>>)
                                      ELSE @]
    /\ ret' = [op |-> "reset", n |-> 0]
    /\ UNCHANGED <<sb, tl_mem_tracker, now, pc, run, result, hist>>

OutNext ==
    \/ \E str \in OutStrs : OutAppend(str)
    \/ \E str \in OutStrs : OutAppendReallocFails(str)
    \/ OutReset

OutSpec == OutInit /\ [][OutNext]_vars

(* ----------------------------------------------------------------------- *)
(* A handle on which the host calls _init again, open or closed, besides    *)
(* registering tools, resetting and closing.                                *)
(* ----------------------------------------------------------------------- *)
\* _init on a handle that was initialised before: a new session is stored
\* in sb->state over what was there and closed is set to 0
InitAgain(timeout, memory_limit) ==
    /\ pc = "idle" /\ ~sb.released
    /\ sb.frees < MaxInits
    /\ LET i == enclave_initialize(tl_mem_tracker, timeout, memory_limit)
       IN  /\ state' = i.st
           /\ tl_mem_tracker' = i.tl
    /\ sb' = [sb EXCEPT !.state = "S", !.closed = FALSE]
    /\ result' = BlankResult
    /\ ret' = Returned("_init")
    /\ UNCHANGED <<now, pc, run, hist>>

ReopenNext ==
    \/ \E m \in {0, MemLimit} : InitAgain(0, m)
    \/ \E n \in ToolNames : enclave_define_function(n)
    \/ enclave_reset
    \/ enclave_close
    \/ \E op \in {"_eval", "reset!", "_define_function"} : CallOnClosed(op)
    \/ rb_enclave_free

ReopenSpec == CapInit /\ [][ReopenNext]_vars

(* ----------------------------------------------------------------------- *)
(* The allocator asked for sizes over the whole range of size_t.  As in     *)
(* AllocSpec, with ret.total the argument of the C library's malloc or      *)
(* realloc: MEM_HEADER_SIZE + size as a size_t.                             *)
(* ----------------------------------------------------------------------- *)
WideSizes == (1..MaxAlloc) \cup {SIZE_MOD - k : k \in 1..MaxAlloc}

WideCall(op, ptr, size) ==
    /\ BagCardinality(state.blocks) < MaxBlocks \/ ~ptr.null
    /\ state.mem_tracker.limit = 0
          => HeapBytes(state.blocks) - ptr.hdr + size <= MaxHeap
    /\ LET a == mrb_basic_alloc_func(tl_mem_tracker, state.mem_tracker, ptr, size)
           released == IF ptr.null \/ (size # 0 /\ a.ret.null) THEN EmptyBag
                       ELSE OneBlock(ptr.hdr)
           taken == IF a.ret.null THEN EmptyBag ELSE OneBlock(a.ret.hdr)
       IN  /\ state' = [mem_tracker |-> a.mt,
                        blocks |-> (state.blocks (-) released) (+) taken]
           /\ ret' = [op |-> op, old |-> ptr.hdr, size |-> size, ptr |-> a.ret,
                      before |-> state,
                      total |-> (MEM_HEADER_SIZE + size) % SIZE_MOD]
    /\ UNCHANGED <<sb, tl_mem_tracker, now, pc, run, result, hist>>

WideMalloc(size) ==
    /\ size > 0
    /\ WideCall("malloc", NullPtr, size)

WideRealloc(old, size) ==
    /\ old \in DOMAIN state.blocks
    /\ WideCall("realloc", Block(old), size)

WideFree(old) ==
    /\ old \in DOMAIN state.blocks
    /\ WideCall("free", Block(old), 0)

WideNext ==
    \/ \E size \in WideSizes : WideMalloc(size)
    \/ \E old \in WideSizes, size \in WideSizes : WideRealloc(old, size)
    \/ \E old \in WideSizes : WideFree(old)

WideSpec == AllocInit /\ [][WideNext]_vars

(* ----------------------------------------------------------------------- *)
(* The fetch hook on its own: a session with a timeout whose evals are      *)
(* followed fetch by fetch.  state is [timeout_state], hist counts the      *)
(* hook's invocations, clock readings and raises since the eval began, and  *)
(* ret is the last invocation: [clock, raise, clk, before].                 *)
(* ----------------------------------------------------------------------- *)
NoFetch ==
    [clock |-> FALSE, raise |-> FALSE, clk |-> 0,
     before |-> [expired |-> FALSE, check_counter |-> 0, deadline |-> 0]]

\* the timeout state sandbox_limits_begin leaves for an eval begun at clk
HookArmed(clk) ==
    [timeout_state |-> [expired |-> FALSE, check_counter |-> 0,
                        deadline |-> clk + TimeoutTicks]]

HookInit ==
    /\ now = 1
    /\ state = HookArmed(now)
    /\ hist = [calls |-> 0, reads |-> 0, raises |-> 0]
    /\ ret = NoFetch
    /\ pc = "running"
    /\ sb = NULL /\ tl_mem_tracker = "S" /\ run = <<>> /\ result = <<>>

\* the next eval of the session begins
HookBegin ==
    /\ hist.calls > 0
    /\ state' = HookArmed(now)
    /\ hist' = [calls |-> 0, reads |-> 0, raises |-> 0]
    /\ ret' = NoFetch
    /\ UNCHANGED <<sb, tl_mem_tracker, now, pc, run, result>>

\* the VM fetches one instruction, dt ticks after the one before, and calls
\* the hook; a raise is handled by the guest or ends the run, and fetches of
\* a rescue or ensure clause follow
HookCall(dt) ==
    /\ hist.calls < MaxFetches
    /\ now + dt <= MaxClock
    /\ LET h == sandbox_code_fetch_hook("S", state.timeout_state, now + dt)
       IN  /\ state' = [state EXCEPT !.timeout_state = h.ts]
           /\ ret' = [clock |-> h.clock, raise |-> h.raise, clk |-> now + dt,
                      before |-> state.timeout_state]
           /\ hist' = [calls  |-> hist.calls + 1,
                       reads  |-> hist.reads + (IF h.clock THEN 1 ELSE 0),
                       raises |-> hist.raises + (IF h.raise THEN 1 ELSE 0)]
    /\ now' = now + dt
    /\ UNCHANGED <<sb, tl_mem_tracker, pc, run, result>>

HookNext ==
    \/ HookBegin
    \/ \E dt \in {0, 1} : HookCall(dt)

HookSpec == HookInit /\ [][HookNext]_vars

(* ----------------------------------------------------------------------- *)
(* Properties                                                               *)
(* ----------------------------------------------------------------------- *)
\* sandbox_state_eval has returned and no facade call was made since
EvalReturned == pc = "idle" /\ result.path # ""

\* C1: a run that ends with a pending VM exception is classified by the two
\* flags alone: Timeout when expired is set (also when exceeded is set as
\* well), otherwise MemoryLimit when exceeded is set, otherwise Runtime; the
\* text of the exception plays no part.
C1_ClassifiedByFlags ==
    (pc = "idle" /\ result.path = "exception") =>
        result.error_kind =
            IF state.timeout_state.expired THEN SANDBOX_ERROR_TIMEOUT
            ELSE IF state.mem_tracker.exceeded THEN SANDBOX_ERROR_MEMORY_LIMIT
            ELSE SANDBOX_ERROR_RUNTIME

\* a run ended with an exception pending and both flags set
C1_BothFlagsSet ==
    /\ pc = "idle" /\ result.path = "exception"
    /\ state.timeout_state.expired /\ state.mem_tracker.exceeded
    /\ result.error_kind = SANDBOX_ERROR_TIMEOUT

\* C2: with timeout_seconds > 0 an eval of guest code that executes bytecode
\* forever eventually returns, and returns Timeout.
C2_ForeverEndsTimeout ==
    (pc = "running" /\ run.prog \in {"loop", "retry"} /\ state.timeout_seconds > 0)
        ~> (EvalReturned /\ result.error_kind = SANDBOX_ERROR_TIMEOUT)

\* The part of C2 that holds, for a looping program without handlers: the eval
\* of `loop { }` eventually returns, and what it returns is Timeout; the eval
\* after it starts with expired cleared and, when it ends with a value,
\* returns that value with error kind None.
LoopTimesOut ==
    /\ (pc = "running" /\ run.prog = "loop" /\ state.timeout_seconds > 0)
          ~> (EvalReturned /\ hist.prog = "loop"
                /\ result.error_kind = SANDBOX_ERROR_TIMEOUT)
    /\ []((EvalReturned /\ hist.prog = "loop")
            => /\ result.error_kind = SANDBOX_ERROR_TIMEOUT
               /\ ret.raised = "Enclave::TimeoutError")
    /\ []((hist.after_timeout /\ pc = "running"
             /\ now < state.timeout_state.deadline)
            => ~state.timeout_state.expired)
    /\ []((hist.after_timeout /\ EvalReturned /\ result.path = "value")
            => /\ result.error_kind = SANDBOX_ERROR_NONE
               /\ result.value # NULL
               /\ ret.raised = ""
               /\ ret.triple.value = result.value)

\* the eval after one that timed out returned a value
UsableAfterTimeout ==
    /\ hist.after_timeout /\ EvalReturned /\ result.path = "value"
    /\ result.error_kind = SANDBOX_ERROR_NONE
    /\ state.timeout_seconds > 0

\* C3: an eval during which the deadline hook set expired returns with error
\* kind Timeout, whatever handlers the guest program has.
C3_TimeoutIsTerminal ==
    (EvalReturned /\ state.timeout_state.expired)
        => result.error_kind = SANDBOX_ERROR_TIMEOUT

C5_ZeroIsUnlimited ==
    /\ (state.alive /\ state.timeout_seconds = 0)
          => /\ ~state.mrb.code_fetch_hook
             /\ ~state.timeout_state.expired
             /\ result.error_kind # SANDBOX_ERROR_TIMEOUT
             /\ ret.raised # "Enclave::TimeoutError"
    /\ (state.alive /\ state.memory_limit = 0)
          => /\ state.mem_tracker.limit = 0
             /\ ~state.mem_tracker.exceeded
             /\ result.error_kind # SANDBOX_ERROR_MEMORY_LIMIT
             /\ ret.raised # "Enclave::MemoryLimitError"

\* a session without limits ran a second program that raised, with a tool
\* name registered
C5_UnlimitedSessionRan ==
    /\ state.alive /\ state.timeout_seconds = 0 /\ state.memory_limit = 0
    /\ EvalReturned /\ result.path = "exception"
    /\ state.cxt.lineno = 2 /\ Len(state.func_names) > 0

C8_BindingsPersist ==
    (state.alive /\ state.mrb.open) =>
        /\ \A v \in Vars :
              hist.binds[v] # UnboundV
                 => /\ SlotOf(state.cxt.syms, v) > 1
                    /\ state.mrb.stack[SlotOf(state.cxt.syms, v)] = hist.binds[v]
        /\ state.mrb.stack[1] = hist.last

\* after an eval that set _, a later eval ended in an exception and the
\* variable assigned and _ are both still there
C8_KeptAcrossError ==
    /\ EvalReturned /\ result.path = "exception" /\ state.cxt.lineno = 2
    /\ hist.last = IntV(1) /\ hist.binds["x"] = IntV(1)
    /\ state.mrb.stack[1] = IntV(1)

\* what a host can observe of a session through eval, reset and
\* define_function
Observable(st) ==
    [syms       |-> st.cxt.syms,
     lineno     |-> st.cxt.lineno,
     stack      |-> st.mrb.stack,
     stack_keep |-> st.stack_keep,
     methods    |-> st.mrb.methods,
     names      |-> st.func_names,
     callback   |-> st.callback,
     output     |-> CollectOutput(st.output),
     exceeded   |-> st.mem_tracker.exceeded,
     current    |-> st.mem_tracker.current,
     heap       |-> HeapBytes(st.mrb.heap),
     timeout    |-> st.timeout_seconds,
     limit      |-> st.memory_limit]

\* define_function called for names[i], names[i+1], ... in turn
RECURSIVE DefineAll(_, _, _, _)
DefineAll(tl, st, names, i) ==
    IF i > Len(names) THEN st
    ELSE DefineAll(tl, sandbox_state_define_function(tl, st, names[i]).st,
                   names, i + 1)

\* a session freshly created with the limits of st, on which the names of st
\* were then registered
FreshWithNames(st) ==
    DefineAll(NULL, enclave_initialize(NULL, st.timeout_seconds, st.memory_limit).st,
              st.func_names, 1)

JustReset == pc = "idle" /\ ret.op = "reset!" /\ ret.raised = ""

\* C9: after reset the session is in the same observable state as a freshly
\* created session with the same limits on which the same tool names were
\* then registered.
C9_ResetIsFresh ==
    JustReset => Observable(state) = Observable(FreshWithNames(state))

\* C10: every registered name is a method of the current VM, a guest call of
\* it reaches the host callback with the userdata set at creation, and reset
\* changes neither the name list nor the callback.
C10_NamesSurviveReset ==
    /\ []((state.alive /\ state.mrb.open)
            => /\ NameSet(state.func_names) \subseteq state.mrb.methods
               /\ \A n \in NameSet(state.func_names), o \in HostOuts :
                     SeenBy(sandbox_function_trampoline(state, n, <<>>, o).seen,
                            n, "self")
               /\ hist.cb # NoCall
                     => /\ hist.cb.name \in NameSet(state.func_names)
                        /\ hist.cb.userdata = "self")
    /\ [][enclave_reset => /\ state'.func_names = state.func_names
                           /\ state'.callback = state.callback]_vars

\* reset has just returned and the name registered before it is a method of
\* the new VM
C10_MethodAfterReset ==
    JustReset /\ state.func_names = <<"foo">> /\ "foo" \in state.mrb.methods

\* C11: define_function succeeds while fewer than 64 names are registered and
\* fails with the capacity error once 64 are; a failed call changes neither the
\* name list nor the VM; the number of names never passes 64 and never
\* decreases before close.
C11_Capacity ==
    /\ [](Len(state.func_names) <= 64)
    /\ [][\A n \in ToolNames :
            enclave_define_function(n)
              => IF Len(state.func_names) < 64
                 THEN /\ ret'.raised = ""
                      /\ state'.func_names = Append(state.func_names, n)
                      /\ n \in state'.mrb.methods
                 ELSE /\ ret'.raised = "RuntimeError"
                      /\ ret'.msg = "too many tool functions (max 64)"
                      /\ state' = state]_vars
    /\ [][(~sb'.closed /\ ~sb'.released)
            => Len(state'.func_names) >= Len(state.func_names)]_vars

\* a call of define_function was refused on a session holding 64 names
C11_CapacityReached ==
    /\ Len(state.func_names) = 64
    /\ ret.op = "_define_function" /\ ret.raised = "RuntimeError"

C13_CloseOnce ==
    /\ [](sb.frees <= 1)
    /\ [](sb.closed => (sb.frees = 1 /\ sb.state = NULL /\ ~state.alive))
    /\ [][(enclave_close /\ ~sb.closed)
            => (sb'.closed /\ sb'.frees = sb.frees + 1 /\ ~state'.alive)]_vars
    /\ [][sb.closed
            => (state' = state /\ tl_mem_tracker' = tl_mem_tracker
                /\ sb'.frees = sb.frees /\ sb'.closed /\ sb'.state = NULL)]_vars

\* the handle was closed and later released by the collector
C13_ClosedThenReleased ==
    sb.closed /\ sb.released /\ sb.frees = 1 /\ ret.op = "close"

\* C14: the output an eval returns is exactly the bytes print, puts and p
\* appended during that eval, in the order of the calls: nothing of an earlier
\* eval, and with a guest runtime error the output written before it.
C14_OutputIsWritten ==
    (EvalReturned /\ ret.op = "eval" /\ ret.raised = "")
        => ret.triple.output = hist.written

\* what holds of the output instead: the buffer the core copies is the bytes
\* written, and the facade returns them up to their first NUL byte
OutputUpToNul ==
    (EvalReturned /\ ret.op = "eval" /\ ret.raised = "")
        => /\ result.output = hist.written
           /\ ret.triple.output = CString(hist.written)

\* an eval returned output, written by two calls, together with an error
OutputWithError ==
    /\ EvalReturned /\ ret.raised = "" /\ ret.triple.error # QNIL
    /\ Len(ret.triple.output) >= 2 /\ ret.triple.output = hist.written

\* the elements of v that are not arrays, in order, at every depth
RECURSIVE Leaves(_)
Leaves(v) ==
    IF v.t = "arr" THEN Flat([k \in 1..Len(v.items) |-> Leaves(v.items[k])])
    ELSE <<v>>

\* one line for each leaf of each argument
LinesOfLeaves(argv) ==
    Join(Flat([i \in 1..Len(argv) |->
                 Flat([j \in 1..Len(Leaves(argv[i])) |->
                         PutsLine(mrb_obj_as_string(Leaves(argv[i])[j]))])]), "")

\* C15: puts given an array writes one line for each leaf element, going into
\* nested arrays at every depth: puts [1,[2,3]] writes the lines 1, 2 and 3.
C15_PutsEveryDepth ==
    (hist.lastw.kind = "puts" /\ Len(hist.lastw.argv) > 0)
        => hist.lastw.bytes = LinesOfLeaves(hist.lastw.argv)

\* what holds of puts instead: the elements of an array argument are written
\* one per line, an element that is itself an array as its inspect string
PutsOneLevel ==
    /\ (hist.lastw.kind = "puts" /\ Len(hist.lastw.argv) > 0
          /\ \A i \in 1..Len(hist.lastw.argv) :
                \A j \in 1..Len(hist.lastw.argv[i].items) :
                   hist.lastw.argv[i].items[j].t # "arr")
          => hist.lastw.bytes = LinesOfLeaves(hist.lastw.argv)
    /\ hist.lastw = [kind |-> "puts",
                     argv |-> <<RAry(<<RInt(1), RAry(<<RInt(2), RInt(3)>>)>>)>>,
                     bytes |-> hist.lastw.bytes]
          => hist.lastw.bytes = "1\n[2, 3]\n"

\* a value of the types the bridge supports, at every depth
RECURSIVE Supported(_)
Supported(v) ==
    /\ v.t \in {"nil", "true", "false", "int", "flt", "str", "sym", "arr", "hash"}
    /\ \A k \in 1..Len(Children(v)) : Supported(Children(v)[k])

\* the value v on the other side of the bridge, c being Children(v) there: a
\* symbol is a string, the rest is what it was
MarshalledOf(v, c) ==
    CASE v.t = "sym"  -> RStr(v.s)
      [] v.t = "arr"  -> RAry(c)
      [] v.t = "hash" -> HashFill(RHash(<<>>, <<>>), SubSeq(c, 1, Len(v.items)),
                                  SubSeq(c, Len(v.items) + 1, Len(c)))
      [] OTHER        -> v

RECURSIVE Marshalled(_)
Marshalled(v) ==
    MarshalledOf(v, [k \in 1..Len(Children(v)) |-> Marshalled(Children(v)[k])])

\* the guest called a registered tool with arguments of supported types
SupportedCall ==
    /\ hist.call.name \in state.mrb.methods
    /\ \A k \in 1..Len(hist.call.argv) : Supported(hist.call.argv[k])

\* C16: a guest call of a registered tool with n arguments of supported types
\* calls the host callback exactly once, inside the eval and before the VM goes
\* on, with the name the tool was called by, argc = n and the arguments
\* converted in order; the guest call returns the callback's value converted
\* back.
C16_ToolCall ==
    /\ SupportedCall
         => /\ hist.call.t.calls = 1
            /\ pc # "idle" => hist.cb = hist.call.t.seen
            /\ hist.call.t.seen.name = hist.call.name
            /\ hist.call.t.seen.argc = Len(hist.call.argv)
            /\ hist.call.t.seen.args = [k \in 1..Len(hist.call.argv) |->
                                          Marshalled(hist.call.argv[k])]
            /\ (hist.call.h.kind = "return" /\ Supported(hist.call.h.value))
                  => /\ hist.call.t.exc = NoExc
                     /\ hist.call.t.ret = Marshalled(hist.call.h.value)
    /\ hist.cb # NoCall => pc # "idle"

\* the guest called foo(:a, "a\0b") and got back [1, {"k" => nil}] for the
\* handler's [1, {k: nil}]
C16_CalledWithTwoArgs ==
    /\ pc = "running"
    /\ hist.cb = [name |-> "foo", userdata |-> "self", argc |-> 2,
                  args |-> <<RStr("a"), RStr("a" \o NUL \o "b")>>]
    /\ hist.call.argv = <<RSym("a"), RStr("a" \o NUL \o "b")>>
    /\ hist.call.h = Returns(RAry(<<RInt(1), RHash(<<RSym("k")>>, <<RNil>>)>>))
    /\ hist.call.t.ret = RAry(<<RInt(1), RHash(<<RStr("k")>>, <<RNil>>)>>)

\* eval, reset! and define_function can be called: the handle is open, the VM
\* has no pending exception and the limits are disarmed
SessionUsable ==
    /\ CanCall
    /\ state.mrb.open /\ state.mrb.exc = NoExc
    /\ ~state.mrb.code_fetch_hook
    /\ tl_mem_tracker = NULL

\* C17: when the host callback returns an error string the guest call raises a
\* RuntimeError with that string; if the guest does not rescue it, eval returns
\* it in the error field without a value and with error kind Runtime, and the
\* session can be used for later evals.
C17_CallbackError ==
    hist.call.t.error # NULL
       => /\ pc \in {"running", "idle"}
          /\ hist.call.t.exc = [cls |-> "RuntimeError", msg |-> hist.call.t.error]
          /\ (EvalReturned /\ hist.unrescued)
                => /\ result.error = ExcInspect(hist.call.t.exc)
                   /\ result.value = NULL
                   /\ result.error_kind = SANDBOX_ERROR_RUNTIME
                   /\ ret.raised = ""
                   /\ ret.triple.value = QNIL
                   /\ ret.triple.error = result.error
                   /\ SessionUsable

\* what holds of a callback error instead: the same, unless the value the
\* callback returns with the error is an array or hash of two or more elements
\* whose conversion failed
CallbackErrorWithoutFault ==
    (hist.call.t.error # NULL /\ ~hist.call.t.fault)
       => /\ pc \in {"running", "idle"}
          /\ hist.call.t.exc = [cls |-> "RuntimeError", msg |-> hist.call.t.error]
          /\ (EvalReturned /\ hist.unrescued)
                => /\ result.error = ExcInspect(hist.call.t.exc)
                   /\ result.value = NULL
                   /\ result.error_kind = SANDBOX_ERROR_RUNTIME
                   /\ ret.raised = ""
                   /\ ret.triple.value = QNIL
                   /\ ret.triple.error = result.error
                   /\ SessionUsable

\* the types of v and of what it contains
RECURSIVE Types(_)
Types(v) == {v.t} \cup UNION {Types(Children(v)[k]) : k \in 1..Len(Children(v))}

\* the string s begins with the string prefix
BeginsWith(s, prefix) ==
    Len(s) >= Len(prefix) /\ SubSeq(s, 1, Len(prefix)) = prefix

\* the handler of the last guest call returned a value of an unsupported type,
\* at top level or inside an array or hash
UnsupportedReturn ==
    /\ hist.call.t.calls = 1
    /\ hist.call.h.kind = "return"
    /\ "obj" \in Types(hist.call.h.value)
    /\ "big" \notin Types(hist.call.h.value)

\* the guest call raised the bridge's message, no value is returned for it,
\* and an eval that ended with that exception returned it as its error and
\* left the session usable
RejectedWithTypeError ==
    /\ pc \in {"running", "idle"}
    /\ hist.call.t.exc # NoExc
    /\ BeginsWith(hist.call.t.exc.msg, "TypeError: unsupported type for sandbox:")
    /\ hist.call.t.ret = RNil
    /\ (EvalReturned /\ hist.unrescued)
          => /\ BeginsWith(result.error, "TypeError: unsupported type for sandbox:")
             /\ result.value = NULL
             /\ ret.raised = ""
             /\ ret.triple.value = QNIL
             /\ ret.triple.error = result.error
             /\ SessionUsable

\* C18: when a tool's host handler returns a value of an unsupported type, at
\* top level or nested inside an array or hash, the eval that called the tool
\* ends with an error that begins 'TypeError: unsupported type for sandbox:',
\* the call produces no guest value, and the session stays usable.
C18_UnsupportedReturn == UnsupportedReturn => RejectedWithTypeError

\* what holds of an unsupported return value instead: the same, unless the
\* array or hash the unsupported value is in has two or more elements
UnsupportedReturnWithoutFault ==
    (UnsupportedReturn /\ ~hist.call.t.fault) => RejectedWithTypeError

\* an argument of the last guest call of a registered tool is of an
\* unsupported type, or contains a value of one
UnsupportedArgument ==
    /\ hist.call.name \in state.mrb.methods
    /\ \E k \in 1..Len(hist.call.argv) : ~Supported(hist.call.argv[k])

\* C19: if an argument of a guest tool call is of an unsupported type, the
\* trampoline raises a TypeError with the bridge's 'unsupported type for
\* sandbox' message and the host callback is not called for that call.
C19_UnsupportedArgument ==
    UnsupportedArgument
       => /\ pc \in {"running", "idle"}
          /\ hist.call.t.exc.cls = "TypeError"
          /\ BeginsWith(hist.call.t.exc.msg, "TypeError: unsupported type for sandbox:")
          /\ hist.call.t.calls = 0
          /\ hist.call.t.seen = NoCall

\* what holds of an unsupported argument instead: the same, unless an argument
\* before it, or the one it is in, is a hash with an array or hash of two or
\* more elements that fails to convert
UnsupportedArgumentWithoutFault ==
    (UnsupportedArgument /\ ~hist.call.t.fault)
       => /\ pc \in {"running", "idle"}
          /\ hist.call.t.exc.cls = "TypeError"
          /\ BeginsWith(hist.call.t.exc.msg, "TypeError: unsupported type for sandbox:")
          /\ hist.call.t.calls = 0
          /\ hist.call.t.seen = NoCall

\* C20: no exception of the host unwinds over the frames of the guest VM:
\* every exception raised while the callback runs (in the handler, converting
\* the arguments, formatting the caught exception, converting the return value)
\* is caught in the callback and returned through the error field.
C20_NoHostUnwind ==
    /\ pc # "unwound"
    /\ hist.call.t.raised = ""
    /\ ret.raised \in {"", "RuntimeError", "Enclave::TimeoutError",
                       "Enclave::MemoryLimitError"}

\* what holds of host exceptions instead: one the handler raises is caught by
\* rb_protect and comes back as the error string, when its inspect string has
\* no NUL byte
HandlerExceptionCaught ==
    (hist.call.t.calls = 1 /\ hist.call.h.kind = "raise"
        /\ CString(hist.call.h.msg) = hist.call.h.msg)
       => /\ hist.call.t.raised = ""
          /\ hist.call.t.error = rb_inspect_exc("RuntimeError", hist.call.h.msg)

(* ----------------------------------------------------------------------- *)
(* The bridge, there and back                                               *)
(* ----------------------------------------------------------------------- *)
\* the value v with every symbol replaced by the string of its name, c being
\* Children(v) so replaced: nothing else changes
SymbolsAsStringsOf(v, c) ==
    CASE v.t = "sym"  -> RStr(v.s)
      [] v.t = "arr"  -> RAry(c)
      [] v.t = "hash" -> RHash(SubSeq(c, 1, Len(v.items)),
                               SubSeq(c, Len(v.items) + 1, Len(c)))
      [] OTHER        -> v

RECURSIVE SymbolsAsStrings(_)
SymbolsAsStrings(v) ==
    SymbolsAsStringsOf(v, [k \in 1..Len(Children(v)) |->
                              SymbolsAsStrings(Children(v)[k])])

\* the host value given came back to the host as back: it was returned by a
\* handler, became the guest value the guest call returned, was handed by the
\* guest to a tool, and is the argument the handler of that call saw
CameBack(given, back) ==
    /\ hist.given = <<given>>
    /\ hist.call.t.calls = 1
    /\ hist.call.t.seen.argc = 1
    /\ hist.call.t.seen.args = <<back>>

\* a hash that has, or holds at some depth a hash that has, two keys that are
\* equal once symbols are strings
RECURSIVE KeysCollide(_)
KeysCollide(v) ==
    \/ /\ v.t = "hash"
       /\ \E i, j \in 1..Len(v.items) :
              i < j /\ SymbolsAsStrings(v.items[i]) = SymbolsAsStrings(v.items[j])
    \/ \E k \in 1..Len(Children(v)) : KeysCollide(Children(v)[k])

\* C21: a value of supported types that goes from the host through the
\* intermediate type into the guest and from the guest through the
\* intermediate type back to the host comes back as itself with every symbol
\* replaced by the string of its name: the order of the elements, the bytes
\* and lengths of the strings and the entries of the hashes are preserved.
C21_RoundTrip ==
    \A k \in 1..Len(hist.given) :
       (Supported(hist.given[k]) /\ hist.call.t.calls = 1)
          => /\ hist.call.t.seen.argc = Len(hist.given)
             /\ hist.call.t.seen.args[k] = SymbolsAsStrings(hist.given[k])

\* C21, amended: the entries of a hash whose keys are equal once symbols are
\* strings come back as one entry, at the place of the first of them and with
\* the value of the last; everything else comes back as claimed, and so does
\* every value in which no two keys of a hash are so equal.
C21_RoundTripMerged ==
    \A k \in 1..Len(hist.given) :
       (Supported(hist.given[k]) /\ hist.call.t.calls = 1)
          => /\ hist.call.t.seen.argc = Len(hist.given)
             /\ hist.call.t.seen.args[k] = Marshalled(hist.given[k])
             /\ ~KeysCollide(hist.given[k])
                   => hist.call.t.seen.args[k] = SymbolsAsStrings(hist.given[k])

\* a hash with keys of four types, symbols in key and in value position, a
\* string with a NUL byte, a float and nested aggregates went there and back
C21_MixedKeysCameBack ==
    LET v == RHash(<<RSym("k"), RInt(2), RStr("s"), RAry(<<RSym("a")>>)>>,
                   <<RAry(<<RInt(1), RStr("a" \o NUL \o "b")>>), RSym("v"),
                     RHash(<<RFlt(1)>>, <<RSym("w")>>), RNil>>)
    IN  /\ CameBack(v, SymbolsAsStrings(v))
        /\ SymbolsAsStrings(v) # v
        /\ pc = "idle"

\* {:a => 1, "a" => 2} came back as {"a" => 2}
C21_CollidingKeysMerged ==
    CameBack(RHash(<<RSym("a"), RStr("a")>>, <<RInt(1), RInt(2)>>),
             RHash(<<RStr("a")>>, <<RInt(2)>>))

(* ----------------------------------------------------------------------- *)
(* Syntax-error line numbers                                                *)
(* ----------------------------------------------------------------------- *)
\* C22: the line a SyntaxError message names is the line of the source handed
\* to that eval (the parser's line minus cxt.lineno plus 1): an error the
\* parser finds on line l of the source is reported as line l, and one on the
\* first line as line 1, whatever evals (successful, failing at run time or
\* failing with a syntax error) the session has seen before.
C22_SyntaxErrorLine ==
    [][\A l \in ErrLines :
          EvalSyntaxError(l)
             => /\ result'.error_kind = SANDBOX_ERROR_RUNTIME
                /\ result'.error =
                      "SyntaxError: syntax error (line " \o ToString(l) \o ")"
                /\ ret'.triple.error = result'.error
                /\ state'.cxt.lineno = state.cxt.lineno]_vars

\* a syntax error on the first line is reported as line 1 on a session whose
\* compile context has been advanced by MaxEvals earlier evals, the last of
\* which failed at run time
C22_LineOneAfterEvals ==
    /\ pc = "idle" /\ result.path = "syntax"
    /\ state.cxt.lineno = MaxEvals
    /\ state.mrb.exc = NoExc
    /\ hist.after_timeout
    /\ result.error = "SyntaxError: syntax error (line 1)"

(* ----------------------------------------------------------------------- *)
(* The tracker's account of the VM's memory                                 *)
(* ----------------------------------------------------------------------- *)
\* sandbox_state_free has run for the session
Closed == sb.frees > 0 /\ ~state.alive

\* C23: at the end of close, when the VM and its compile context have been
\* freed with the tracker active and unlimited, tracker.current is 0, whatever
\* calls of define_function, eval and reset came before.
C23_CloseEndsAtZero == Closed => state.mem_tracker.current = 0

\* a close of a session whose tracker holds exactly the bytes of the VM's
\* blocks ends at 0
CloseFreesWhatIsCharged ==
    [][(enclave_close /\ ~sb.closed
          /\ state.mem_tracker.current = HeapBytes(state.mrb.heap))
         => state'.mem_tracker.current = 0]_vars

\* C24: at every point of a session's life tracker.current is the sum of the
\* sizes in the headers of the blocks its VM holds: every allocation,
\* reallocation and free made for the VM of a session is charged to the
\* tracker of that session and to no other, also those of define_function and
\* those made while a call on another session is in progress on the thread.
C24_CurrentIsLiveBytes ==
    /\ \A s \in Sessions :
          (state[s].alive /\ state[s].mrb.open)
             => state[s].mem_tracker.current = HeapBytes(state[s].mrb.heap)
    /\ hist.foreign = {}

\* the account of a session is exact as long as no name was registered on it
\* and nothing was charged across sessions
ExactWithoutDefine ==
    \A s \in Sessions :
       (state[s].alive /\ state[s].mrb.open /\ state[s].func_names = <<>>
           /\ hist.foreign = {})
          => state[s].mem_tracker.current = HeapBytes(state[s].mrb.heap)

\* B registered a name from a handler of A's eval, and A's tracker was charged
\* for it
ChargedToCaller ==
    /\ <<"B", "A">> \in hist.foreign
    /\ state["A"].alive /\ state["A"].mrb.open
    /\ state["A"].mem_tracker.current > HeapBytes(state["A"].mrb.heap)

(* ----------------------------------------------------------------------- *)
(* Two threads                                                              *)
(* ----------------------------------------------------------------------- *)
\* C25: two sessions used from two threads do not interfere, however their
\* calls interleave: the slot of a thread never points to the tracker of the
\* other thread's session, so no allocator call made for the VM of one
\* session is charged to, or refused because of, the tracker of the other; a
\* session without a limit is never refused, whatever the other session does.
C25_ThreadsDoNotInterfere ==
    /\ hist.foreign = {}
    /\ \A t \in Threads :
          tl_mem_tracker[t] = NULL
             \/ (tl_mem_tracker[t] \in Sessions /\ ThreadOf(tl_mem_tracker[t]) = t)
    /\ \A s \in Sessions :
          (state[s].alive /\ state[s].memory_limit = 0)
             => ~state[s].mem_tracker.exceeded /\ state[s].mrb.exc = NoExc

\* both threads are inside an eval: A's VM has been refused at A's limit while
\* B's VM, without a limit, holds more bytes than that limit
C25_RefusedBesideUnlimited ==
    /\ pc[1] # <<>> /\ pc[2] # <<>>
    /\ state["A"].mem_tracker.exceeded
    /\ state["A"].mrb.exc = NoMemoryExc
    /\ state["B"].memory_limit = 0
    /\ state["B"].mem_tracker.current > MemLimit
    /\ tl_mem_tracker[1] = "A" /\ tl_mem_tracker[2] = "B"

(* ----------------------------------------------------------------------- *)
(* Ownership of the intermediate values                                     *)
(* ----------------------------------------------------------------------- *)
\* the value in the caller's slot has been released: sandbox_value_free has
\* been called on it, or the conversion into it failed and cleaned up
Released == pc = "converted" /\ (ret.calls >= 1 \/ result.rc # 0)

\* every array and hash of v, at every depth, has at most one element
RECURSIVE ShortAggregates(_)
ShortAggregates(v) ==
    /\ Len(v.items) <= 1
    /\ \A k \in 1..Len(Children(v)) : ShortAggregates(Children(v)[k])

\* C26: sandbox_value_free is idempotent: called on a value that has already
\* been released (a string, an array or a hash of any length, or what a failed
\* conversion left behind) it frees nothing, reads through no released or
\* NULL pointer and leaves the value as it is.
C26_FreeIsIdempotent ==
    Released => /\ sandbox_value_free(result.out).frees = 0
                /\ ~sandbox_value_free(result.out).fault
                /\ sandbox_value_free(result.out).val = result.out

\* a second sandbox_value_free of a scalar, of a string and of a value whose
\* arrays and hashes have at most one element does nothing
FreeTwiceShort ==
    (Released /\ ShortAggregates(run.v))
       => /\ sandbox_value_free(result.out).frees = 0
          /\ ~sandbox_value_free(result.out).fault

\* C27: when a conversion into the intermediate type fails part-way through
\* an array or hash, at any index and depth, in key or value position, its
\* clean-up frees what was allocated without an invalid access, and the value
\* it leaves in the output slot can be handed to sandbox_value_free by the
\* caller without a free of a freed buffer or an invalid access.
C27_FailedConversionCleansUp ==
    (pc # "idle" /\ result.rc # 0)
       => /\ ~result.fault
          /\ pc = "converted"
          /\ ~FreeFaults(result.out)
          /\ ret.frees = 0

\* a conversion that fails in a value whose arrays and hashes have at most one
\* element cleans up as claimed
FailedShortCleansUp ==
    (pc # "idle" /\ result.rc # 0 /\ ShortAggregates(run.v))
       => /\ ~result.fault
          /\ pc = "converted"
          /\ ~FreeFaults(result.out)
          /\ ret.frees = 0

\* the conversion of [1, Object.new] failed and the caller's
\* sandbox_value_free of what it left read through the NULL items pointer
FailedArrayFaults ==
    /\ run.v = RAry(<<RInt(1), RObj("Object")>>)
    /\ result.rc # 0 /\ result.out = FailedAggregate(SANDBOX_VALUE_ARRAY, 2)
    /\ ret.calls = 1 /\ pc = "crashed"

(* ----------------------------------------------------------------------- *)
(* Refusal and accounting of the allocator                                  *)
(* ----------------------------------------------------------------------- *)
\* the request of the last call exceeds the limit of the tracker it met
OverLimit ==
    /\ ret.op \in {"malloc", "realloc"}
    /\ ret.before.mem_tracker.limit > 0
    /\ ret.before.mem_tracker.current - ret.old + ret.size
          > ret.before.mem_tracker.limit

\* the last call returned NULL, set exceeded and left current and the blocks
\* with their headers as they were
RefusedCleanly ==
    /\ ret.ptr.null
    /\ state.mem_tracker = [ret.before.mem_tracker EXCEPT !.exceeded = TRUE]
    /\ state.blocks = ret.before.blocks

\* the last call changed current by size - old, returned (but for a free) a
\* block whose header records size, and released the block passed in
Accounted ==
    /\ state.mem_tracker
          = [ret.before.mem_tracker EXCEPT !.current = @ - ret.old + ret.size]
    /\ ret.op # "free" => ~ret.ptr.null /\ ret.ptr.hdr = ret.size
    /\ ret.op = "free" => ret.ptr.null
    /\ HeapBytes(state.blocks) = HeapBytes(ret.before.blocks) - ret.old + ret.size

\* the C library had no memory for a request within the limit: NULL, and the
\* tracker, exceeded included, and the blocks are as they were
LibcRefused ==
    /\ ret.op # "free" /\ ret.ptr.null
    /\ state = ret.before

C29_SlotAsOnEntry ==
    pc \in {"idle", "unwound"} => tl_mem_tracker = NULL

\* the slot is back at NULL whenever a call has returned to its caller, by
\* any of the returns of new, eval, reset and close
SlotRestoredOnReturn ==
    pc = "idle" => tl_mem_tracker = NULL

\* calls nested through tool handlers keep the slot a stack: on every thread
\* the slot is NULL at top level and the innermost eval's session inside,
\* and every eval in progress has saved the session of the eval around it
StackOrder ==
    \A t \in Threads :
       /\ tl_mem_tracker[ThreadSlot(t)]
             = IF pc[t] = <<>> THEN NULL ELSE Top(t).s
       /\ \A k \in 1..Len(pc[t]) :
             pc[t][k].prev = IF k = 1 THEN NULL ELSE pc[t][k - 1].s

\* C30: every public operation that allocates or frees through the guest VM
\* runs with its own session's tracker in the active slot for the whole of
\* that work: a define_function leaves the session as the registration made
\* with the session's tracker active leaves it.
C30_OwnTrackerActive ==
    [][\A n \in ToolNames :
          enclave_define_function(n)
             => state' = sandbox_state_define_function("S", state, n).st]_vars

\* while the VM runs the guest program of an eval the slot holds the
\* session's tracker
OwnTrackerWhileRunning ==
    pc = "running" => tl_mem_tracker = "S"

(* ----------------------------------------------------------------------- *)
(* Sampling of the deadline by the fetch hook                               *)
(* ----------------------------------------------------------------------- *)
\* C31: the fetch hook reads the clock only on every 1024th invocation of an
\* eval, check_counter being reset to 0 there and below 1024 whenever the
\* hook returns; it sets expired and raises only when the deadline is not
\* zero and now >= deadline; once expired is set it returns at once, so the
\* timeout exception is raised at most once per eval.
C31_HookSamples ==
    /\ state.timeout_state.check_counter < TIMEOUT_CHECK_INTERVAL
    /\ ret.clock => /\ hist.calls % TIMEOUT_CHECK_INTERVAL = 0
                    /\ state.timeout_state.check_counter = 0
    /\ hist.reads = hist.calls \div TIMEOUT_CHECK_INTERVAL
          \/ state.timeout_state.expired
    /\ ret.raise <=> (state.timeout_state.expired /\ ~ret.before.expired)
    /\ ret.raise => /\ ret.clock
                    /\ ret.before.deadline # 0
                    /\ ret.clk >= ret.before.deadline
    /\ ~sandbox_code_fetch_hook("S", [state.timeout_state EXCEPT !.deadline = 0],
                                now).raise
    /\ ret.before.expired => /\ state.timeout_state = ret.before
                             /\ ~ret.clock /\ ~ret.raise
    /\ hist.raises <= 1

\* the hook raised at the second reading of the clock of an eval, the
\* deadline having been ahead at the first
C31_RaisedAtSecondReading ==
    /\ ret.raise
    /\ hist.calls = 2 * TIMEOUT_CHECK_INTERVAL
    /\ hist.reads = 2

(* ----------------------------------------------------------------------- *)
(* The limits at the end of an eval                                         *)
(* ----------------------------------------------------------------------- *)
\* the fetch hook is removed from the VM and the tracker's limit is 0
Disarmed == ~state.mrb.code_fetch_hook /\ state.mem_tracker.limit = 0

\* the work of sandbox_state_eval after mrb_vm_run (the inspect of the value
\* or of the exception) is added to the tracker's count, is not refused and
\* leaves exceeded and expired as the run left them
PostMortemAccounted ==
    \A v \in Val :
       VMReturn(v)
          => /\ state'.mem_tracker.current
                  = state.mem_tracker.current + InspectSize
             /\ state'.mem_tracker.exceeded = state.mem_tracker.exceeded
             /\ state'.timeout_state.expired = state.timeout_state.expired

\* C32: when eval returns, on any of its paths, the limits are disarmed (the
\* hook is removed and the tracker's limit is 0) while the tracker keeps its
\* count; the post-mortem work is accounted, is never refused by the limit
\* and never changes exceeded or expired.
C32_DisarmedOnReturn ==
    /\ [](EvalReturned => Disarmed)
    /\ [][PostMortemAccounted]_vars

\* C32 as amended: the limits are disarmed when eval returns after
\* mrb_vm_run, with a value or with an exception; the returns before the run
\* leave the hook and the limit as sandbox_limits_begin set them.
C32_DisarmedAfterRun ==
    /\ []((EvalReturned /\ result.path \in {"value", "exception"}) => Disarmed)
    /\ []((EvalReturned /\ result.path \in {"parser", "syntax", "codegen"})
            => /\ state.mrb.code_fetch_hook = (state.timeout_seconds > 0)
               /\ state.mem_tracker.limit = state.memory_limit)
    /\ [][PostMortemAccounted]_vars

\* an eval of a session with a memory limit has returned with the tracker's
\* count above that limit: the inspect after the run was not refused
C32_InspectPastLimit ==
    /\ EvalReturned /\ result.path \in {"value", "exception"}
    /\ state.memory_limit > 0
    /\ state.mem_tracker.current > state.memory_limit
    /\ Disarmed

(* ----------------------------------------------------------------------- *)
(* What one eval leaves for the next                                        *)
(* ----------------------------------------------------------------------- *)
\* sandbox_limits_begin, entered in this state, clears both flags and the
\* counter
BeginClearsFlags ==
    LET st == sandbox_limits_begin(tl_mem_tracker, state, now).st
    IN  /\ ~st.timeout_state.expired
        /\ ~st.mem_tracker.exceeded
        /\ st.timeout_state.check_counter = 0

\* mrb_vm_run starts with expired clear and the counter at 0, and with
\* exceeded set only if this eval's own parser was refused memory
RunStartsClean ==
    (pc = "idle" /\ pc' = "running")
       => /\ ~state'.timeout_state.expired
          /\ state'.timeout_state.check_counter = 0
          /\ state'.mrb.exc = NoExc
          /\ state'.mem_tracker.exceeded
                => /\ state.memory_limit > 0
                   /\ state.mem_tracker.current + ParserSize > state.memory_limit

\* the return of an eval that ran restores the arena: what the eval's own
\* calls created after the run (the inspect string) is not kept alive
ArenaRestored ==
    \A v \in Val : VMReturn(v) => state'.mrb.live = state.mrb.live

LastCallBuffers ==
    TrampolineBuffers(state, hist.call.name, hist.call.argv, hist.call.h)

\* C34: on every path through the trampoline (argument conversion failure,
\* callback error, success) each heap buffer it allocates or takes over (the
\* argument array and its converted values, the callback's error string and
\* the trampoline's copy of it, the callback's value) is freed exactly once,
\* also on the paths that end by raising into the VM.
C34_BuffersFreedOnce ==
    (hist.call.name # "" /\ pc # "crashed" /\ hist.call.t.raised = "")
       => \A b \in DOMAIN LastCallBuffers :
             LastCallBuffers[b][2] = LastCallBuffers[b][1]

\* every buffer but the trampoline's copy of the error string is freed
\* exactly once on the three paths
FreedOnceButCopy ==
    (hist.call.name # "" /\ pc # "crashed" /\ hist.call.t.raised = "")
       => \A b \in DOMAIN LastCallBuffers \ {"err_copy"} :
             LastCallBuffers[b][2] = LastCallBuffers[b][1]

\* the handler raised, the trampoline raised RuntimeError into the VM and
\* its copy of the error string was not freed
ErrorCopyLeaked ==
    /\ hist.call.h = Raises("boom")
    /\ hist.call.t.exc.cls = "RuntimeError"
    /\ LastCallBuffers.err_copy = <<1, 0>>
    /\ LastCallBuffers.error = <<1, 1>>

(* ----------------------------------------------------------------------- *)
(* Re-entry of eval from a tool callback of the same session                *)
(* ----------------------------------------------------------------------- *)
\* C35: an eval started on a session from inside one of that session's own
\* tool callbacks is stopped by an in-progress guard: it does not run (no
\* session has two evals in progress), and the limits the outer eval armed
\* are left as they were (the tracker of a session whose eval is in progress
\* has the session's limit).
C35_ReentryGuarded ==
    \A t \in Threads : \A s \in Sessions :
       /\ Cardinality(FramesOf(t, s)) <= 1
       /\ FramesOf(t, s) # {}
             => state[s].mem_tracker.limit = state[s].memory_limit

\* the program of an eval is running with its session's memory limit
\* disarmed, an eval of the same session made from a handler having returned
DisarmedByInnerEval ==
    \E s \in Sessions :
       /\ pc[1] # <<>> /\ Len(pc[1]) = 1
       /\ Top(1).s = s /\ Top(1).at = "vm"
       /\ state[s].memory_limit > 0
       /\ state[s].mem_tracker.limit = 0

(* ----------------------------------------------------------------------- *)
(* The error kind and the exception it is given for                         *)
(* ----------------------------------------------------------------------- *)
\* the error kind of the eval that returned goes with the exception it ended
\* with: Timeout with the hook's exception, MemoryLimit with NoMemoryError
KindMatchesException ==
    /\ result.error_kind = SANDBOX_ERROR_TIMEOUT
          => result.error = ExcInspect(TimeoutExc)
    /\ result.error_kind = SANDBOX_ERROR_MEMORY_LIMIT
          => result.error = ExcInspect(NoMemoryExc)

\* C36: Timeout is returned only when the exception pending at the end of
\* the run is the one the deadline hook raised, and MemoryLimit only when it
\* is the VM's NoMemoryError after a refused allocation; an unrelated guest
\* exception is classified Runtime even if a limit flag was set earlier in
\* the same eval.
C36_KindFromPendingException ==
    EvalReturned => KindMatchesException

\* a program without rescue clauses is classified by the exception that ended it
KindMatchesWithoutRescue ==
    (EvalReturned /\ hist.prog \in {"loop", "grow"}) => KindMatchesException

\* an eval ended with a guest exception of its own and was classified
\* MemoryLimit: the flag was set by a refusal that a collection resolved
GuestErrorAsMemoryLimit ==
    /\ EvalReturned
    /\ result.error_kind = SANDBOX_ERROR_MEMORY_LIMIT
    /\ result.error # ExcInspect(NoMemoryExc)
    /\ result.error # ExcInspect(TimeoutExc)

(* ----------------------------------------------------------------------- *)
(* The limit checks over the whole range of size_t                          *)
(* ----------------------------------------------------------------------- *)
\* C37: the allocator's limit checks are exact for every size_t operand: a
\* request is refused whenever the true value of current + size, or of
\* current - old_size + size, exceeds the limit and is accepted otherwise;
\* no wraparound of current + size, of current - old_size or of header +
\* size lets an oversized request through or refuses a fitting one, and
\* current never wraps below zero on a free or a shrinking realloc.
C37_ExactForEverySize ==
    ret.op # "none"
       => /\ IF OverLimit THEN RefusedCleanly ELSE Accounted
          /\ ~ret.ptr.null => ret.total = MEM_HEADER_SIZE + ret.size

\* the last request is one whose sums fit a size_t, made of a tracker whose
\* count is the bytes of the blocks
FitsSizeT ==
    /\ ret.before.mem_tracker.current = HeapBytes(ret.before.blocks)
    /\ ret.before.mem_tracker.current + ret.size < SIZE_MOD
    /\ MEM_HEADER_SIZE + ret.size < SIZE_MOD

\* the checks are exact for the requests whose sums fit a size_t
ExactWithoutWrap ==
    (ret.op # "none" /\ FitsSizeT)
       => /\ IF OverLimit THEN RefusedCleanly ELSE Accounted
          /\ ~ret.ptr.null => ret.total = MEM_HEADER_SIZE + ret.size

\* a malloc whose size exceeds the limit on its own was accepted, with fewer
\* bytes asked of the C library than the header takes
OversizedAccepted ==
    /\ ret.op = "malloc" /\ ~ret.ptr.null
    /\ ret.size > MemLimit /\ ret.before.mem_tracker.limit = MemLimit
    /\ ret.total < MEM_HEADER_SIZE
    /\ state.mem_tracker.current < ret.before.mem_tracker.current

(* ----------------------------------------------------------------------- *)
(* What the memory limit counts                                             *)
(* ----------------------------------------------------------------------- *)
\* C38: with a memory limit, all memory the guest can make the session hold
\* during an eval is charged against the limit, the bytes of the captured
\* output included: every growth of the output buffer's capacity raises the
\* tracker's count by as much, or is refused.
C38_OutputCharged ==
    [][(state.memory_limit > 0 /\ state'.output.cap > state.output.cap)
          => state'.mem_tracker.current
                >= state.mem_tracker.current + state'.output.cap - state.output.cap]_vars

\* a running program holds more bytes of output buffer than the limit, and
\* the tracker has refused nothing
OutputBeyondLimit ==
    /\ pc = "running" /\ state.memory_limit > 0
    /\ state.output.cap > state.memory_limit
    /\ ~state.mem_tracker.exceeded

(* ----------------------------------------------------------------------- *)
(* The closed state of a handle                                             *)
(* ----------------------------------------------------------------------- *)
\* C39: the closed state of a handle is permanent: once close has set
\* closed, no facade operation, _init called again included, makes closed?
\* return false, or makes eval, reset or define_function succeed on the
\* handle again.
C39_ClosedIsPermanent ==
    [][sb.closed
         => /\ sb'.closed
            /\ ret'.op \in {"_eval", "reset!", "_define_function"}
                  => ret' = ClosedError(ret'.op)]_vars

\* every operation but _init leaves a closed handle closed
ClosedButForInit ==
    [][(sb.closed /\ ret'.op # "_init") => sb'.closed]_vars

\* a tool was registered on a handle that had been closed
RegisteredAfterClose ==
    /\ sb.frees > 0 /\ ~sb.closed /\ ~sb.released
    /\ ret.op = "_define_function" /\ ret.raised = ""
    /\ Len(state.func_names) > 0

(* ----------------------------------------------------------------------- *)
(* The output buffer's invariants                                           *)
(* ----------------------------------------------------------------------- *)
\* an allocated buffer has len < cap and the byte at offset len is NUL
Terminated ==
    state.buf # NULL
       => /\ state.len < state.cap
          /\ Len(state.mem) > state.len /\ state.mem[state.len + 1] = NUL

\* what one call of append or reset does to the buffer
OutStep ==
    /\ (ret'.op = "append" /\ ret'.n > 0)
          => /\ state'.len = state.len + ret'.n
             /\ state'.buf # NULL
             /\ SubSeq(state'.mem, 1, state.len) = SubSeq(state.mem, 1, state.len)
    /\ (ret'.op = "append" /\ ret'.n = 0) => state' = state
    /\ ret'.op = "reset" => (state'.len = 0 /\ state'.cap = state.cap)
    /\ (state.cap = 0 /\ state'.cap > 0) => state'.cap >= 256
    /\ state'.cap >= state.cap

\* C40: after init and any sequence of append and reset: if buf is
\* allocated then len < cap and buf[len] is NUL; an append of n > 0 bytes
\* increases len by exactly n and keeps the earlier bytes; an append of 0
\* bytes changes nothing; reset sets len to 0 and leaves cap unchanged; the
\* first allocation has capacity at least 256 and capacity never shrinks.
C40_OutputBufInvariants == []Terminated /\ [][OutStep]_vars

\* the same for the calls in which realloc grants what it is asked
InvariantsWhenGranted == []Terminated /\ [][~state'.fault => OutStep]_vars

\* an append that needed a larger buffer got NULL from realloc and went on
\* to copy through it
AppendThroughNull ==
    /\ state.fault /\ state.buf = NULL /\ state.cap > 256
    /\ ret.op = "append" /\ ret.n > 0
====
